---- MODULE Spec2Model ----
(***************************************************************************)
(* Hierarchical segmentation and anchoring engine of the tipitaka scripts: *)
(* the window slicer, the sentence splitters (simple and strict), the      *)
(* anchor resolver and the per-file processing loop of                     *)
(*   scripts/build_chunks_subchunks_sentences.py      ("orig")             *)
(*   scripts/build_chunks_subchunks_sentences_fix.py  ("fix")              *)
(*   scripts/make_chunk_subchunk_sentence_v2.py       ("v2")               *)
(* together with the location of the sentences in a chunk text (also of   *)
(* pipeline_chunk_subchunk_sentence.py), the formats of the IDs, the loop  *)
(* of main over the input files, the rows of process_file written one by   *)
(* one, the token-pointer mapping of the single-table scripts, the sort of *)
(* scripts/make_sentences_compact4_v2.py, check 3 of                       *)
(* scripts/verify_tokens_and_anchors.py and pipeline_build_sqlite.py.      *)
(* Text is a sequence of one-character strings; a token of the whitespace  *)
(* tokenizer is a non-empty text without whitespace (what str.split()      *)
(* returns).                                                               *)
(***************************************************************************)
EXTENDS Integers, Sequences, FiniteSets, TLC

VARIABLES
    pc,                     \* position of the specification's driver
    n, size, spans, slicer, \* window slicer: arguments, result, function called
    text, sentences, cuts, splitter,
                            \* splitter: argument, result, indices of the
                            \* terminators that ended a sentence, function called
    ranges, char_pos, anchor,
                            \* anchor resolver: arguments and result
    variant,                \* which script processes the file
    chunk_size, sub_size,   \* CHUNK_TOKEN_SIZE, SUBCHUNK_TOKEN_SIZE
    tokens_all,             \* tokens of the file being processed
    chunk_ranges,           \* slice_ranges(N, CHUNK_TOKEN_SIZE)
    ci,                     \* number of chunk_ranges already processed
    next_chunk_idx,         \* running chunk ordinal
    chunk_rows, sub_rows, sent_rows,
                            \* rows written to chunks/subchunks/sentences.csv
    subchunks_char_ranges,  \* the ranges built for the chunk last processed
    chunk_words,            \* the tokens of the chunk last processed
    depths,                 \* splitter: bracket depth met at each index scanned
    tokenizer, locator,     \* sentence location: tokenizer selected, script run
    decoded_text,           \* sentence location: the decoded text of the chunk
    sent_positions,         \* sentence location: (start, end, sentence) triples
    ordinals, ids,          \* ID assigner: two ordinal tuples and their IDs
    files, fi,              \* main: the input files, how many are done
    next_chunk_index,       \* main: the chunk ordinal of the next file
    chunk_base_index,       \* process_file: its argument
    rows_written,           \* rows of the current chunk already written
    run, first_run,         \* repeated run: its number, output of the first
    subchunk_id_column,     \* verifier: dft["subchunk_id"] as read_csv gives it
    verdict,                \* verifier: what ok() of check 3 returned
    pointer_rows            \* token-pointer scripts: rows of the sentence loop

slicerVars   == <<n, size, spans, slicer>>
splitterVars == <<text, sentences, cuts, splitter, depths>>
resolverVars == <<ranges, char_pos, anchor>>
fileVars     == <<variant, chunk_size, sub_size, tokens_all, chunk_ranges, ci,
                  next_chunk_idx, chunk_rows, sub_rows, sent_rows,
                  subchunks_char_ranges, chunk_words>>
locateVars   == <<tokenizer, locator, decoded_text, sent_positions>>
idVars       == <<ordinals, ids>>
mainVars     == <<files, fi, next_chunk_index, chunk_base_index>>
rerunVars    == <<run, first_run>>
verifyVars   == <<subchunk_id_column, verdict>>
extVars      == <<mainVars, rows_written, rerunVars, verifyVars, pointer_rows>>
vars == <<pc, slicerVars, splitterVars, resolverVars, fileVars, locateVars, idVars,
          extVars>>

----------------------------------------------------------------------------
(* Bounds of the model *)

MaxN       == 9    \* token counts 0..MaxN for the slicer
MaxSize    == 4    \* window sizes 1..MaxSize for the slicer
MaxTextLen == 4    \* lengths 0..MaxTextLen of the texts given to the splitters
MaxRanges  == 2    \* lists of 0..MaxRanges ranges for the anchor resolver
MaxPos     == 3    \* range ends 0..MaxPos, offsets -1..MaxPos+1 for the resolver
MaxTokens     == 4 \* files of 0..MaxTokens tokens
MaxChunkSize  == 4 \* CHUNK_TOKEN_SIZE ranges over 1..MaxChunkSize
MaxSubSize    == 3 \* SUBCHUNK_TOKEN_SIZE ranges over 1..MaxSubSize
MaxNegSize    == 2 \* window sizes -MaxNegSize..0 for the slicer
MaxIterations == 3 \* iterations followed of a loop that does not end
MaxFiles      == 3 \* main processes 0..MaxFiles files
MaxFileTokens == 3 \* each of 0..MaxFileTokens tokens
MaxMainChunkSize == 2 \* CHUNK_TOKEN_SIZE ranges over 1..MaxMainChunkSize in main
MaxAnchorLen  == 4 \* texts of 0..MaxAnchorLen characters are anchored
MaxAnchorSub  == 2 \* with SUBCHUNK_TOKEN_SIZE in 1..MaxAnchorSub
MaxRerunTokens == 3 \* files of 0..MaxRerunTokens tokens are processed twice
MaxBase       == 2 \* with chunk_base_index in 1..MaxBase
MaxCsvRows    == 6 \* sentences.csv has 0..MaxCsvRows rows for the verifier
MaxOrdinal    == 2 \* ordinals 1..MaxOrdinal given to the ID formats, beside
                   \* those at and beyond the padding widths

----------------------------------------------------------------------------
(* Generic helpers *)

Min(a, b) == IF a < b THEN a ELSE b
Max(a, b) == IF a > b THEN a ELSE b

\* Python range(start, stop, step) as a sequence: ascending for step > 0,
\* descending for step < 0.  range raises ValueError for step = 0, which the
\* callers model before they evaluate it.
RECURSIVE Range(_, _, _)
Range(start, stop, step) ==
    IF step > 0
    THEN IF start < stop THEN <<start>> \o Range(start + step, stop, step) ELSE <<>>
    ELSE IF step < 0 /\ start > stop
         THEN <<start>> \o Range(start + step, stop, step)
         ELSE <<>>

----------------------------------------------------------------------------
(* Window slicer *)

SliceRangesFix_EmptySpan(nn, sz) ==
    LET r == Range(0, Max(nn, 1), sz)
    IN  [k \in 1..Len(r) |-> <<r[k], Min(r[k] + sz, nn)>>]

SliceRangesFix_NoMin(nn, sz) ==
    LET r == Range(0, nn, sz)
    IN  [k \in 1..Len(r) |-> <<r[k], r[k] + sz>>]

\* build_chunks_subchunks_sentences_fix.py slice_ranges: (start, end_exclusive)
SliceRangesFix(nn, sz) ==
    LET r == Range(0, nn, sz)
    IN  [k \in 1..Len(r) |-> <<r[k], Min(r[k] + sz, nn)>>]

\* make_chunk_subchunk_sentence_v2.py chunk_spans: (start, end_exclusive)
ChunkSpans(nn, sz) ==
    LET r == Range(0, nn, sz)
    IN  [k \in 1..Len(r) |-> <<r[k], Min(r[k] + sz, nn)>>]

\* build_chunks_subchunks_sentences.py slice_ranges, the while loop:
\* (start, end_inclusive)
RECURSIVE SliceLoop(_, _, _, _)
SliceLoop(nn, sz, start, rs) ==
    IF start < nn
    THEN SliceLoop(nn, sz, start + sz, Append(rs, <<start, Min(start + sz, nn) - 1>>))
    ELSE rs

RECURSIVE SliceLoop_ShortStep(_, _, _, _)
SliceLoop_ShortStep(nn, sz, start, rs) ==
    IF start < nn
    THEN SliceLoop_ShortStep(nn, sz, Min(start + sz, nn - 1) + 1,
                             Append(rs, <<start, Min(start + sz, nn - 1)>>))
    ELSE rs

SliceRangesOrig_OffByOne(nn, sz) == SliceLoop_ShortStep(nn, sz, 0, <<>>)

SliceRangesOrig(nn, sz) == SliceLoop(nn, sz, 0, <<>>)

\* The exclusive end of a span under the convention of the function that made it.
EndExcl(fn, span) == IF fn = "slice_ranges_orig" THEN span[2] + 1 ELSE span[2]
SpanLen(fn, span) == EndExcl(fn, span) - span[1]
SpanSet(fn, span) == span[1] .. (EndExcl(fn, span) - 1)

----------------------------------------------------------------------------
(* Characters and strings (Python str methods) *)

At(t, i) == t[i + 1]            \* t[i], 0-based as in the source

Whitespace == {" ", "\t", "\n"}
Uppercase  == {"A", "B", "C", "D", "E", "F", "G", "H", "I", "J", "K", "L", "M",
               "N", "O", "P", "Q", "R", "S", "T", "U", "V", "W", "X", "Y", "Z"}
IsSpace(c) == c \in Whitespace  \* str.isspace() of one character
IsUpper(c) == c \in Uppercase   \* str.isupper() of one character

\* str.strip(): remove the leading and the trailing whitespace.
RECURSIVE LStrip(_)
LStrip(t) == IF t # <<>> /\ IsSpace(Head(t)) THEN LStrip(Tail(t)) ELSE t
RECURSIVE RStrip(_)
RStrip(t) ==
    IF t # <<>> /\ IsSpace(t[Len(t)]) THEN RStrip(SubSeq(t, 1, Len(t) - 1)) ELSE t
Strip_LeftOnly(t) == LStrip(t)
Strip(t) == RStrip(LStrip(t))

ReplaceNewlines_Keep(t) == t

\* text.replace('\n', ' ')
ReplaceNewlines(t) == [k \in 1..Len(t) |-> IF t[k] = "\n" THEN " " ELSE t[k]]

\* ''.join(parts)
RECURSIVE Join(_)
Join(parts) == IF parts = <<>> THEN <<>> ELSE Head(parts) \o Join(Tail(parts))

\* t[a:b] for 0 <= a, clipped at len(t) as Python slices are
Slice(t, a, b) == SubSeq(t, a + 1, Min(b, Len(t)))

----------------------------------------------------------------------------
(* Strict sentence splitter                                                 *)
(* The loops return the sentences and, as a record of the run, the indices  *)
(* of the terminators at which a sentence was appended and the bracket      *)
(* depth before and after each index scanned.                               *)

Openers     == {"(", "[", "{"}
Closers     == {")", "]", "}"}
StrictTerms == {".", "?", "!"}

\* while j < n and text[j].isspace(): j += 1
RECURSIVE SkipSpaces(_, _)
SkipSpaces(t, j) == IF j < Len(t) /\ IsSpace(At(t, j)) THEN SkipSpaces(t, j + 1) ELSE j

Matches(op, cl) == <<op, cl>> \in {<<"(", ")">>, <<"[", "]">>, <<"{", "}">>}

RECURSIVE StrictLoop_KindMatch(_, _, _, _, _, _, _)
StrictLoop_KindMatch(t, i, start, stack, out, cs, ds) ==
    IF i >= Len(t)
    THEN LET tail == Strip(Slice(t, start, Len(t)))
         IN  [out |-> IF tail # <<>> THEN Append(out, tail) ELSE out,
              cuts |-> cs, depths |-> ds]
    ELSE LET ch     == At(t, i)
             pushed == Append(stack, ch)
             popped == SubSeq(stack, 1, Len(stack) - 1)
             kept   == ds \cup {<<i, Len(stack), Len(stack)>>}
         IN
         IF ch \in Openers
         THEN StrictLoop_KindMatch(t, i + 1, start, pushed, out, cs,
                     ds \cup {<<i, Len(stack), Len(pushed)>>})
         ELSE IF ch \in Closers /\ stack # <<>> /\ Matches(stack[Len(stack)], ch)
         THEN StrictLoop_KindMatch(t, i + 1, start, popped, out, cs,
                     ds \cup {<<i, Len(stack), Len(popped)>>})
         ELSE IF ch \in StrictTerms /\ stack = <<>> /\ i + 1 < Len(t) /\ At(t, i + 1) = " "
         THEN LET j == SkipSpaces(t, i + 2) IN
              IF j < Len(t) /\ IsUpper(At(t, j))
              THEN LET sent == Strip(Slice(t, start, i + 1))
                   IN  StrictLoop_KindMatch(t, j, j, stack,
                                  IF sent # <<>> THEN Append(out, sent) ELSE out,
                                  IF sent # <<>> THEN cs \cup {i} ELSE cs,
                                  kept)
              ELSE StrictLoop_KindMatch(t, i + 1, start, stack, out, cs, kept)
         ELSE StrictLoop_KindMatch(t, i + 1, start, stack, out, cs, kept)

RECURSIVE StrictLoop_AnyDepth(_, _, _, _, _, _, _)
StrictLoop_AnyDepth(t, i, start, stack, out, cs, ds) ==
    IF i >= Len(t)
    THEN LET tail == Strip(Slice(t, start, Len(t)))
         IN  [out |-> IF tail # <<>> THEN Append(out, tail) ELSE out,
              cuts |-> cs, depths |-> ds]
    ELSE LET ch     == At(t, i)
             pushed == Append(stack, ch)
             popped == SubSeq(stack, 1, Len(stack) - 1)
             kept   == ds \cup {<<i, Len(stack), Len(stack)>>}
         IN
         IF ch \in Openers
         THEN StrictLoop_AnyDepth(t, i + 1, start, pushed, out, cs,
                     ds \cup {<<i, Len(stack), Len(pushed)>>})
         ELSE IF ch \in Closers /\ stack # <<>>
         THEN StrictLoop_AnyDepth(t, i + 1, start, popped, out, cs,
                     ds \cup {<<i, Len(stack), Len(popped)>>})
         ELSE IF ch \in StrictTerms /\ i + 1 < Len(t) /\ At(t, i + 1) = " "
         THEN LET j == SkipSpaces(t, i + 2) IN
              IF j < Len(t) /\ IsUpper(At(t, j))
              THEN LET sent == Strip(Slice(t, start, i + 1))
                   IN  StrictLoop_AnyDepth(t, j, j, stack,
                                  IF sent # <<>> THEN Append(out, sent) ELSE out,
                                  IF sent # <<>> THEN cs \cup {i} ELSE cs,
                                  kept)
              ELSE StrictLoop_AnyDepth(t, i + 1, start, stack, out, cs, kept)
         ELSE StrictLoop_AnyDepth(t, i + 1, start, stack, out, cs, kept)

RECURSIVE StrictLoop_AnySpace(_, _, _, _, _, _, _)
StrictLoop_AnySpace(t, i, start, stack, out, cs, ds) ==
    IF i >= Len(t)
    THEN LET tail == Strip(Slice(t, start, Len(t)))
         IN  [out |-> IF tail # <<>> THEN Append(out, tail) ELSE out,
              cuts |-> cs, depths |-> ds]
    ELSE LET ch     == At(t, i)
             pushed == Append(stack, ch)
             popped == SubSeq(stack, 1, Len(stack) - 1)
             kept   == ds \cup {<<i, Len(stack), Len(stack)>>}
         IN
         IF ch \in Openers
         THEN StrictLoop_AnySpace(t, i + 1, start, pushed, out, cs,
                     ds \cup {<<i, Len(stack), Len(pushed)>>})
         ELSE IF ch \in Closers /\ stack # <<>>
         THEN StrictLoop_AnySpace(t, i + 1, start, popped, out, cs,
                     ds \cup {<<i, Len(stack), Len(popped)>>})
         ELSE IF ch \in StrictTerms /\ stack = <<>> /\ i + 1 < Len(t) /\ IsSpace(At(t, i + 1))
         THEN LET j == SkipSpaces(t, i + 2) IN
              IF j < Len(t) /\ IsUpper(At(t, j))
              THEN LET sent == Strip(Slice(t, start, i + 1))
                   IN  StrictLoop_AnySpace(t, j, j, stack,
                                  IF sent # <<>> THEN Append(out, sent) ELSE out,
                                  IF sent # <<>> THEN cs \cup {i} ELSE cs,
                                  kept)
              ELSE StrictLoop_AnySpace(t, i + 1, start, stack, out, cs, kept)
         ELSE StrictLoop_AnySpace(t, i + 1, start, stack, out, cs, kept)

\* The while loop of split_into_sentences (fix) and split_sentences_strict
\* (v2), and the tail after it: i, start, stack and out are the source's; ds
\* records, for each index scanned, the length of the stack before and after.
RECURSIVE StrictLoop(_, _, _, _, _, _, _)
StrictLoop(t, i, start, stack, out, cs, ds) ==
    IF i >= Len(t)
    THEN LET tail == Strip(Slice(t, start, Len(t)))
         IN  [out |-> IF tail # <<>> THEN Append(out, tail) ELSE out,
              cuts |-> cs, depths |-> ds]
    ELSE LET ch     == At(t, i)
             pushed == Append(stack, ch)
             popped == SubSeq(stack, 1, Len(stack) - 1)
             kept   == ds \cup {<<i, Len(stack), Len(stack)>>}
         IN
         IF ch \in Openers
         THEN StrictLoop(t, i + 1, start, pushed, out, cs,
                     ds \cup {<<i, Len(stack), Len(pushed)>>})
         ELSE IF ch \in Closers /\ stack # <<>>
         THEN StrictLoop(t, i + 1, start, popped, out, cs,
                     ds \cup {<<i, Len(stack), Len(popped)>>})
         ELSE IF ch \in StrictTerms /\ stack = <<>> /\ i + 1 < Len(t) /\ At(t, i + 1) = " "
         THEN LET j == SkipSpaces(t, i + 2) IN
              IF j < Len(t) /\ IsUpper(At(t, j))
              THEN LET sent == Strip(Slice(t, start, i + 1))
                   IN  StrictLoop(t, j, j, stack,
                                  IF sent # <<>> THEN Append(out, sent) ELSE out,
                                  IF sent # <<>> THEN cs \cup {i} ELSE cs,
                                  kept)
              ELSE StrictLoop(t, i + 1, start, stack, out, cs, kept)
         ELSE StrictLoop(t, i + 1, start, stack, out, cs, kept)

SplitIntoSentencesFix_KindMatch(t) ==
    StrictLoop_KindMatch(ReplaceNewlines(t), 0, 0, <<>>, <<>>, {}, {})

SplitIntoSentencesFix_AnySpace(t) ==
    StrictLoop_AnySpace(ReplaceNewlines(t), 0, 0, <<>>, <<>>, {}, {})

SplitIntoSentencesFix_AnyDepth(t) ==
    StrictLoop_AnyDepth(ReplaceNewlines(t), 0, 0, <<>>, <<>>, {}, {})

\* build_chunks_subchunks_sentences_fix.py split_into_sentences
SplitIntoSentencesFix(t) == StrictLoop(ReplaceNewlines(t), 0, 0, <<>>, <<>>, {}, {})

\* make_chunk_subchunk_sentence_v2.py split_sentences_strict (no newline
\* replacement)
SplitSentencesStrict(t) == StrictLoop(t, 0, 0, <<>>, <<>>, {}, {})

----------------------------------------------------------------------------
(* Simple sentence splitter *)

SimpleDelims == {".", "(", ")"}

\* re.split(r'(\.|\(|\))', text): the pieces between the delimiters, with the
\* delimiters themselves, in order.
RECURSIVE ReSplitFrom_NoGroup(_, _, _, _)
ReSplitFrom_NoGroup(t, i, cur, parts) ==
    IF i >= Len(t) THEN Append(parts, cur)
    ELSE IF At(t, i) \in SimpleDelims
         THEN ReSplitFrom_NoGroup(t, i + 1, <<>>, Append(parts, cur))
         ELSE ReSplitFrom_NoGroup(t, i + 1, Append(cur, At(t, i)), parts)
ReSplit_NoGroup(t) == ReSplitFrom_NoGroup(t, 0, <<>>, <<>>)

RECURSIVE ReSplitFrom(_, _, _, _)
ReSplitFrom(t, i, cur, parts) ==
    IF i >= Len(t) THEN Append(parts, cur)
    ELSE IF At(t, i) \in SimpleDelims
         THEN ReSplitFrom(t, i + 1, <<>>, parts \o <<cur, <<At(t, i)>>>>)
         ELSE ReSplitFrom(t, i + 1, Append(cur, At(t, i)), parts)
ReSplit(t) == ReSplitFrom(t, 0, <<>>, <<>>)

RECURSIVE SimpleLoop_NoDepth(_, _, _, _, _, _, _, _)
SimpleLoop_NoDepth(parts, i, current, paren_level, sents, pos, cs, ds) ==
    IF i >= Len(parts)
    THEN LET tail == Strip(Join(current))
         IN  [out |-> IF tail # <<>> THEN Append(sents, tail) ELSE sents,
              cuts |-> cs, depths |-> ds]
    ELSE LET part == At(parts, i)
             npos == pos + Len(part)
             kept == IF part = <<>> THEN ds
                     ELSE ds \cup {<<pos, paren_level, paren_level>>}
         IN  IF part = <<".">>
             THEN LET sentence == Strip(Join(Append(current, part)))
                  IN  SimpleLoop_NoDepth(parts, i + 1, <<>>, paren_level,
                                 IF sentence # <<>> THEN Append(sents, sentence) ELSE sents,
                                 npos,
                                 IF sentence # <<>> THEN cs \cup {pos} ELSE cs,
                                 kept)
             ELSE SimpleLoop_NoDepth(parts, i + 1, Append(current, part), paren_level,
                             sents, npos, cs, kept)

\* The while loop over parts of split_into_sentences (orig, text_to_ids,
\* single_chunk) and the tail after it; pos is the index in the text of
\* parts[i]; ds records, for each part that is not empty, paren_level before
\* and after it.
RECURSIVE SimpleLoop(_, _, _, _, _, _, _, _)
SimpleLoop(parts, i, current, paren_level, sents, pos, cs, ds) ==
    IF i >= Len(parts)
    THEN LET tail == Strip(Join(current))
         IN  [out |-> IF tail # <<>> THEN Append(sents, tail) ELSE sents,
              cuts |-> cs, depths |-> ds]
    ELSE LET part == At(parts, i)
             npos == pos + Len(part)
             kept == IF part = <<>> THEN ds
                     ELSE ds \cup {<<pos, paren_level, paren_level>>}
         IN  IF part = <<"(">>
             THEN SimpleLoop(parts, i + 1,
                             IF current # <<>>
                             THEN [current EXCEPT ![Len(current)] = @ \o part]
                             ELSE Append(current, part),
                             paren_level + 1, sents, npos, cs,
                             ds \cup {<<pos, paren_level, paren_level + 1>>})
             ELSE IF part = <<")">>
             THEN SimpleLoop(parts, i + 1, Append(current, part),
                             Max(paren_level - 1, 0), sents, npos, cs,
                             ds \cup {<<pos, paren_level, Max(paren_level - 1, 0)>>})
             ELSE IF part = <<".">> /\ paren_level = 0
             THEN LET sentence == Strip(Join(Append(current, part)))
                  IN  SimpleLoop(parts, i + 1, <<>>, paren_level,
                                 IF sentence # <<>> THEN Append(sents, sentence) ELSE sents,
                                 npos,
                                 IF sentence # <<>> THEN cs \cup {pos} ELSE cs,
                                 kept)
             ELSE SimpleLoop(parts, i + 1, Append(current, part), paren_level,
                             sents, npos, cs, kept)

SplitIntoSentencesSimple_NoDepth(t) ==
    SimpleLoop_NoDepth(ReSplit(ReplaceNewlines(t)), 0, <<>>, 0, <<>>, 0, {}, {})

\* build_chunks_subchunks_sentences.py split_into_sentences (the same code is
\* in text_to_ids_and_dicts.py and single_chunk_subchunk_sentence.py)
SplitIntoSentencesSimple(t) ==
    SimpleLoop(ReSplit(ReplaceNewlines(t)), 0, <<>>, 0, <<>>, 0, {}, {})

----------------------------------------------------------------------------
(* Identifiers: f"chunk_{i:06d}", f"sc_{i:06d}_{k:03d}", f"s_{i:06d}_{k:03d}_{m:03d}" *)

CHUNK_PAD    == 6
SUBCHUNK_PAD == 3
SENTENCE_PAD == 3

Digits == <<"0", "1", "2", "3", "4", "5", "6", "7", "8", "9">>

\* str(k) for k >= 0
RECURSIVE Decimal(_)
Decimal(k) ==
    IF k < 10 THEN <<Digits[k + 1]>> ELSE Decimal(k \div 10) \o <<Digits[(k % 10) + 1]>>

ZeroPad_Truncate(k, w) ==
    LET d == Decimal(k)
    IN  IF Len(d) >= w THEN SubSeq(d, Len(d) - w + 1, Len(d))
        ELSE [x \in 1..(w - Len(d)) |-> "0"] \o d

\* f"{k:0{w}d}" for k >= 0: zero-padded to at least w digits
ZeroPad(k, w) ==
    LET d == Decimal(k)
    IN  IF Len(d) >= w THEN d ELSE [x \in 1..(w - Len(d)) |-> "0"] \o d

ChunkId(idx) == <<"c", "h", "u", "n", "k", "_">> \o ZeroPad(idx, CHUNK_PAD)
SubchunkId(idx, ord) ==
    <<"s", "c", "_">> \o ZeroPad(idx, CHUNK_PAD) \o <<"_">> \o ZeroPad(ord, SUBCHUNK_PAD)
SentenceId(idx, sub, ord) ==
    <<"s", "_">> \o ZeroPad(idx, CHUNK_PAD) \o <<"_">> \o ZeroPad(sub, SUBCHUNK_PAD)
        \o <<"_">> \o ZeroPad(ord, SENTENCE_PAD)

\* f"s_{chunk_idx:0{CHUNK_PAD}d}_000_{s_order:0{SENTENCE_PAD}d}": the
\* sentence id of a sentence that no sub-chunk range contains
SentenceIdUnanchored(idx, ord) ==
    <<"s", "_">> \o ZeroPad(idx, CHUNK_PAD) \o <<"_", "0", "0", "0", "_">>
        \o ZeroPad(ord, SENTENCE_PAD)

\* int(s.split("_")[-1]): the number written after the last underscore
RECURSIVE LastField(_)
LastField(s) ==
    IF s = <<>> \/ s[Len(s)] = "_" THEN <<>>
    ELSE Append(LastField(SubSeq(s, 1, Len(s) - 1)), s[Len(s)])
DigitValue(c) == CHOOSE d \in 0..9 : Digits[d + 1] = c
RECURSIVE ParseInt(_)
ParseInt(ds) ==
    IF ds = <<>> THEN 0
    ELSE 10 * ParseInt(SubSeq(ds, 1, Len(ds) - 1)) + DigitValue(ds[Len(ds)])
SubOrderOf(sid) == ParseInt(LastField(sid))

----------------------------------------------------------------------------
(* Anchor resolver *)

None == <<"None">>       \* Python's None

RECURSIVE FindFrom_HalfOpen(_, _, _)
FindFrom_HalfOpen(pos, rs, k) ==
    IF k > Len(rs) THEN None
    ELSE IF rs[k][2] <= pos /\ pos < rs[k][3] THEN rs[k][1]
         ELSE FindFrom_HalfOpen(pos, rs, k + 1)

FindSubchunkIdByChar_HalfOpen(pos, rs) == FindFrom_HalfOpen(pos, rs, 1)

\* for sid, cstart, cend in subchunks_char_ranges: first match wins
RECURSIVE FindFrom(_, _, _)
FindFrom(pos, rs, k) ==
    IF k > Len(rs) THEN None
    ELSE IF rs[k][2] <= pos /\ pos <= rs[k][3] THEN rs[k][1]
         ELSE FindFrom(pos, rs, k + 1)

\* find_subchunk_id_by_char (orig and fix; v2 has the same loop inline)
FindSubchunkIdByChar(pos, rs) == FindFrom(pos, rs, 1)

----------------------------------------------------------------------------
(* Whitespace tokenizer and character offsets *)

\* " ".join(tokens): decode_tokens of the whitespace tokenizer
RECURSIVE JoinSpace(_)
JoinSpace(toks) ==
    IF toks = <<>> THEN <<>>
    ELSE IF Len(toks) = 1 THEN toks[1]
         ELSE toks[1] \o <<" ">> \o JoinSpace(Tail(toks))

DecodeTokens(toks) == JoinSpace(toks)

\* join_tokens (orig): " ".join(tokens).strip()
JoinTokens(toks) == Strip(JoinSpace(toks))

\* build_char_offsets_from_tokens / build_token_char_offsets /
\* build_char_offsets: offsets[i] is the index in the joined text of the first
\* character of tokens[i]
RECURSIVE OffsetsLoop(_, _, _, _)
OffsetsLoop(toks, i, pos, offsets) ==
    IF i >= Len(toks) THEN offsets
    ELSE OffsetsLoop(toks, i + 1,
                     pos + Len(At(toks, i)) + (IF i < Len(toks) - 1 THEN 1 ELSE 0),
                     Append(offsets, pos))
BuildCharOffsets(toks) == OffsetsLoop(toks, 0, 0, <<>>)

\* chunk_text.find(s, from): the lowest index >= from at which s occurs, or -1
Find(t, s, from) ==
    LET hits == {k \in from..(Len(t) - Len(s)) : SubSeq(t, k + 1, k + Len(s)) = s}
    IN  IF hits = {} THEN -1 ELSE CHOOSE k \in hits : \A m \in hits : k <= m

\* The loop that locates the sentences in the chunk text (orig and fix):
\* (char_start, char_end_inclusive, text) of each non-empty sentence.
RECURSIVE SentPositionsLoop(_, _, _, _, _)
SentPositionsLoop(chunk_text, sents, k, cursor, acc) ==
    IF k > Len(sents) THEN acc
    ELSE LET s == Strip(sents[k]) IN
         IF s = <<>> THEN SentPositionsLoop(chunk_text, sents, k + 1, cursor, acc)
         ELSE LET f  == Find(chunk_text, s, cursor)
                  st == IF f = -1 THEN Find(chunk_text, s, 0) ELSE f
                  en == st + Len(s) - 1
              IN  SentPositionsLoop(chunk_text, sents, k + 1, en + 1,
                                    Append(acc, <<st, en, s>>))
SentPositions(chunk_text, sents) == SentPositionsLoop(chunk_text, sents, 1, 0, <<>>)

\* if s_subchunk_id: ... (None and "" are false)
Truthy(sid) == sid # None /\ sid # <<>>

SentenceRow_NoSentinel(chunk_idx, s_order, p, rs) ==
    LET sid == FindSubchunkIdByChar(p[1], rs)
    IN  [sentence_id |-> IF Truthy(sid)
                         THEN SentenceId(chunk_idx, SubOrderOf(sid), s_order)
                         ELSE SentenceId(chunk_idx, 1, s_order),
         chunk_id    |-> ChunkId(chunk_idx),
         subchunk_id |-> IF Truthy(sid) THEN sid ELSE <<>>,
         order_idx   |-> s_order,
         char_start  |-> p[1],
         char_end    |-> p[2],
         pali_text   |-> p[3]]

\* The sentence row written for the s_order-th located sentence (orig and fix).
SentenceRow(chunk_idx, s_order, p, rs) ==
    LET sid == FindSubchunkIdByChar(p[1], rs)
    IN  [sentence_id |-> IF Truthy(sid)
                         THEN SentenceId(chunk_idx, SubOrderOf(sid), s_order)
                         ELSE <<"s", "_">> \o ZeroPad(chunk_idx, CHUNK_PAD)
                                  \o <<"_", "0", "0", "0", "_">>
                                  \o ZeroPad(s_order, SENTENCE_PAD),
         chunk_id    |-> ChunkId(chunk_idx),
         subchunk_id |-> IF Truthy(sid) THEN sid ELSE <<>>,
         order_idx   |-> s_order,
         char_start  |-> p[1],
         char_end    |-> p[2],
         pali_text   |-> p[3]]

SentenceRows(chunk_idx, positions, rs) ==
    [k \in 1..Len(positions) |-> SentenceRow(chunk_idx, k, positions[k], rs)]

----------------------------------------------------------------------------
(* One iteration of the chunk loop of process_file, fix script *)

SubRowFix_LocalRange(chunk_idx, g_start, order_idx, span, chunk_tokens) ==
    [subchunk_id |-> SubchunkId(chunk_idx, order_idx),
     chunk_id    |-> ChunkId(chunk_idx),
     order_idx   |-> order_idx,
     token_start |-> span[1],
     token_end   |-> span[2],
     token_count |-> span[2] - span[1],
     pali_text   |-> JoinSpace(Slice(chunk_tokens, span[1], span[2]))]

SubRowFix_InclusiveCount(chunk_idx, g_start, order_idx, span, chunk_tokens) ==
    [subchunk_id |-> SubchunkId(chunk_idx, order_idx),
     chunk_id    |-> ChunkId(chunk_idx),
     order_idx   |-> order_idx,
     token_start |-> g_start + span[1],
     token_end   |-> g_start + span[2],
     token_count |-> span[2] - span[1] + 1,
     pali_text   |-> JoinSpace(Slice(chunk_tokens, span[1], span[2]))]

\* the row written to subchunks.csv for the local span (sc_start, sc_end)
SubRowFix(chunk_idx, g_start, order_idx, span, chunk_tokens) ==
    [subchunk_id |-> SubchunkId(chunk_idx, order_idx),
     chunk_id    |-> ChunkId(chunk_idx),
     order_idx   |-> order_idx,
     token_start |-> g_start + span[1],
     token_end   |-> g_start + span[2],
     token_count |-> span[2] - span[1],
     pali_text   |-> JoinSpace(Slice(chunk_tokens, span[1], span[2]))]

SubCharRangeFix_StartOffByOne(chunk_idx, order_idx, span, char_offsets, words, chunk_text) ==
    LET sc_start == span[1]
        sc_end   == span[2]
        cstart == IF sc_start < Len(char_offsets)
                  THEN At(char_offsets, sc_start) + 1 ELSE Len(chunk_text)
        cend   == IF sc_end = 0 THEN -1
                  ELSE IF sc_end < Len(char_offsets)
                       THEN At(char_offsets, sc_end - 1) + Len(At(words, sc_end - 1)) - 1
                       ELSE IF Len(chunk_text) # 0 THEN Len(chunk_text) - 1 ELSE -1
    IN  <<SubchunkId(chunk_idx, order_idx), cstart, cend>>

\* (subchunk_id, cstart, cend) appended to subchunks_char_ranges
SubCharRangeFix(chunk_idx, order_idx, span, char_offsets, words, chunk_text) ==
    LET sc_start == span[1]
        sc_end   == span[2]
        cstart == IF sc_start < Len(char_offsets)
                  THEN At(char_offsets, sc_start) ELSE Len(chunk_text)
        cend   == IF sc_end = 0 THEN -1
                  ELSE IF sc_end < Len(char_offsets)
                       THEN At(char_offsets, sc_end - 1) + Len(At(words, sc_end - 1)) - 1
                       ELSE IF Len(chunk_text) # 0 THEN Len(chunk_text) - 1 ELSE -1
    IN  <<SubchunkId(chunk_idx, order_idx), cstart, cend>>

ProcessChunkFix(toks, g_start, g_end, chunk_idx, ssz) ==
    LET chunk_tokens == Slice(toks, g_start, g_end)
        chunk_text   == DecodeTokens(chunk_tokens)
        words        == chunk_tokens        \* whitespace tokenizer
        char_offsets == BuildCharOffsets(words)
        sub_local    == SliceRangesFix(Len(chunk_tokens), ssz)
        rs == [k \in 1..Len(sub_local) |->
                  SubCharRangeFix(chunk_idx, k, sub_local[k], char_offsets, words, chunk_text)]
        sents == SplitIntoSentencesFix(chunk_text).out
    IN  [chunk |-> [chunk_id    |-> ChunkId(chunk_idx),
                    token_start |-> g_start,
                    token_end   |-> g_end,
                    token_count |-> g_end - g_start,
                    pali_text   |-> chunk_text],
         subs  |-> [k \in 1..Len(sub_local) |->
                       SubRowFix(chunk_idx, g_start, k, sub_local[k], chunk_tokens)],
         ranges |-> rs,
         sents |-> SentenceRows(chunk_idx, SentPositions(chunk_text, sents), rs),
         words |-> words]

----------------------------------------------------------------------------
(* One iteration of the chunk loop of process_file, orig script             *)
(* (token ranges with inclusive ends)                                       *)

SubRowOrig(chunk_idx, g_start, order_idx, span, chunk_tokens) ==
    [subchunk_id |-> SubchunkId(chunk_idx, order_idx),
     chunk_id    |-> ChunkId(chunk_idx),
     order_idx   |-> order_idx,
     token_start |-> g_start + span[1],
     token_end   |-> g_start + span[2],
     pali_text   |-> JoinTokens(Slice(chunk_tokens, span[1], span[2] + 1))]

SubCharRangeOrig(chunk_idx, order_idx, span, char_offsets, chunk_tokens) ==
    LET sc_start_local == span[1]
        sc_end_local   == span[2]
        sc_char_start  == At(char_offsets, sc_start_local)
        end0 == At(char_offsets, sc_end_local) + Len(At(chunk_tokens, sc_end_local)) - 1
        sc_char_end == IF sc_end_local > sc_start_local
                       THEN end0 + (sc_end_local - sc_start_local) ELSE end0
    IN  <<SubchunkId(chunk_idx, order_idx), sc_char_start, sc_char_end>>

ProcessChunkOrig(toks, g_start, g_end, chunk_idx, ssz) ==
    LET chunk_tokens == Slice(toks, g_start, g_end + 1)
        chunk_text   == JoinTokens(chunk_tokens)
        sub_ranges_local == SliceRangesOrig(Len(chunk_tokens), ssz)
        char_offsets == BuildCharOffsets(chunk_tokens)
        rs == [k \in 1..Len(sub_ranges_local) |->
                  SubCharRangeOrig(chunk_idx, k, sub_ranges_local[k], char_offsets, chunk_tokens)]
        sents == SplitIntoSentencesSimple(chunk_text).out
    IN  [chunk |-> [chunk_id    |-> ChunkId(chunk_idx),
                    token_start |-> g_start,
                    token_end   |-> g_end,
                    pali_text   |-> chunk_text],
         subs  |-> [k \in 1..Len(sub_ranges_local) |->
                       SubRowOrig(chunk_idx, g_start, k, sub_ranges_local[k], chunk_tokens)],
         ranges |-> rs,
         sents |-> SentenceRows(chunk_idx, SentPositions(chunk_text, sents), rs),
         words |-> chunk_tokens]

----------------------------------------------------------------------------
(* One iteration of the chunk loop of main, v2 script (one wide table)      *)

SubCharRangeV2(c_idx, s_idx, span, chunk_token_char, chunk_tokens, chunk_text) ==
    LET sc_start == span[1]
        sc_end   == span[2]
        cstart   == IF sc_start < Len(chunk_token_char)
                    THEN At(chunk_token_char, sc_start) ELSE Len(chunk_text)
        last_tok == sc_end - 1
        cend     == IF last_tok >= sc_start /\ last_tok < Len(chunk_tokens)
                    THEN At(chunk_token_char, last_tok) + Len(At(chunk_tokens, last_tok)) - 1
                             + (last_tok - sc_start)
                    ELSE cstart - 1
    IN  <<SubchunkId(c_idx, s_idx), cstart, cend>>

\* for k, (sid, cstart, cend) in enumerate(sub_char_ranges, start=1): the
\* ordinal of the first range that contains start_idx, 0 when there is none
RECURSIVE SubOrdFrom(_, _, _)
SubOrdFrom(start_idx, rs, k) ==
    IF k > Len(rs) THEN 0
    ELSE IF rs[k][2] <= start_idx /\ start_idx <= rs[k][3] THEN k
         ELSE SubOrdFrom(start_idx, rs, k + 1)

\* The loop over the sentences of a chunk: the rows appended, with the
\* start_idx of each kept as char_start.
RECURSIVE SentLoopV2(_, _, _, _, _, _, _, _)
SentLoopV2(c_idx, chunk_text, sents, sub_texts, rs, s_order, cursor, rows) ==
    IF s_order > Len(sents) THEN rows
    ELSE LET s_text == sents[s_order] IN
         IF s_text = <<>>
         THEN SentLoopV2(c_idx, chunk_text, sents, sub_texts, rs, s_order + 1, cursor, rows)
         ELSE LET f == Find(chunk_text, s_text, cursor)
                  start_idx == IF f = -1 THEN Find(chunk_text, s_text, 0) ELSE f
                  sub_ord == SubOrdFrom(start_idx, rs, 1)
                  row == [chunk_id      |-> ChunkId(c_idx),
                          chunk_text    |-> chunk_text,
                          subchunk_id   |-> IF sub_ord > 0 THEN rs[sub_ord][1] ELSE <<>>,
                          subchunk_text |-> IF sub_ord > 0 THEN sub_texts[sub_ord] ELSE <<>>,
                          sentence_id   |->
                              IF sub_ord > 0
                              THEN SentenceId(c_idx, sub_ord, s_order)
                              ELSE <<"s", "_">> \o ZeroPad(c_idx, CHUNK_PAD)
                                       \o <<"_", "0", "0", "0", "_">>
                                       \o ZeroPad(s_order, SENTENCE_PAD),
                          pali_text     |-> s_text,
                          order_idx     |-> s_order,
                          char_start    |-> start_idx]
              IN  SentLoopV2(c_idx, chunk_text, sents, sub_texts, rs, s_order + 1,
                             start_idx + Len(s_text), Append(rows, row))

ProcessChunkV2(toks, c_start, c_end, c_idx, ssz) ==
    LET chunk_tokens == Slice(toks, c_start, c_end)
        chunk_text   == DecodeTokens(chunk_tokens)
        sub_spans    == ChunkSpans(Len(chunk_tokens), ssz)
        chunk_token_char == BuildCharOffsets(chunk_tokens)
        sub_texts == [k \in 1..Len(sub_spans) |->
                         DecodeTokens(Slice(chunk_tokens, sub_spans[k][1], sub_spans[k][2]))]
        rs == [k \in 1..Len(sub_spans) |->
                  SubCharRangeV2(c_idx, k, sub_spans[k], chunk_token_char, chunk_tokens, chunk_text)]
        sents == SplitSentencesStrict(chunk_text).out
    IN  [ranges |-> rs,
         sents  |-> SentLoopV2(c_idx, chunk_text, sents, sub_texts, rs, 1, 0, <<>>),
         words  |-> chunk_tokens]

----------------------------------------------------------------------------
(* Idle values of the variables a specification does not use *)

IdleSlicer   == n = 0 /\ size = 1 /\ spans = <<>> /\ slicer = "none"
IdleSplitter == /\ text = <<>> /\ sentences = <<>> /\ cuts = {} /\ splitter = "none"
                /\ depths = {}
IdleResolver == ranges = <<>> /\ char_pos = 0 /\ anchor = None
IdleFile     == /\ variant = "none" /\ chunk_size = 1 /\ sub_size = 1
                /\ tokens_all = <<>> /\ chunk_ranges = <<>> /\ ci = 0
                /\ next_chunk_idx = 1
                /\ chunk_rows = <<>> /\ sub_rows = <<>> /\ sent_rows = <<>>
                /\ subchunks_char_ranges = <<>> /\ chunk_words = <<>>
IdleLocate   == /\ tokenizer = "none" /\ locator = "none"
                /\ decoded_text = <<>> /\ sent_positions = <<>>
IdleIds      == ordinals = <<>> /\ ids = <<>>
IdleMain     == /\ files = <<>> /\ fi = 0 /\ next_chunk_index = 1
                /\ chunk_base_index = 1
IdleRerun    == run = 1 /\ first_run = <<>>
IdleVerify   == subchunk_id_column = <<>> /\ verdict = "none"
IdleExt      == /\ IdleMain /\ rows_written = 0 /\ IdleRerun /\ IdleVerify
                /\ pointer_rows = <<>>

----------------------------------------------------------------------------
(* Specification of the window slicer: every (n, size) of the grid, sizes   *)
(* that are zero or negative included, and the three scenarios of the       *)
(* specification's section 8.                                               *)

SlicerInputs ==
    ((0..MaxN) \X ((0 - MaxNegSize)..MaxSize))
        \cup {<<8500, 8000>>, <<500, 200>>, <<16000, 8000>>}

InitSlicer ==
    /\ pc = "ready"
    /\ \E in \in SlicerInputs : n = in[1] /\ size = in[2]
    /\ spans = <<>> /\ slicer = "none"
    /\ IdleSplitter /\ IdleResolver /\ IdleFile /\ IdleLocate /\ IdleIds /\ IdleExt

\* range(0, n, size) raises ValueError when size is 0; nothing is returned.
CallSliceRangesFix ==
    /\ pc = "ready"
    /\ slicer' = "slice_ranges_fix"
    /\ IF size = 0
       THEN pc' = "ValueError" /\ spans' = spans
       ELSE pc' = "sliced" /\ spans' = SliceRangesFix(n, size)
    /\ UNCHANGED <<n, size, splitterVars, resolverVars, fileVars, locateVars, idVars, extVars>>

CallChunkSpans ==
    /\ pc = "ready"
    /\ slicer' = "chunk_spans"
    /\ IF size = 0
       THEN pc' = "ValueError" /\ spans' = spans
       ELSE pc' = "sliced" /\ spans' = ChunkSpans(n, size)
    /\ UNCHANGED <<n, size, splitterVars, resolverVars, fileVars, locateVars, idVars, extVars>>

\* "while start < n" with "start += size": for size <= 0 and n > 0 start
\* stays at or below 0, the condition never becomes false and the call does
\* not return; the iterations are then taken one at a time.
CallSliceRangesOrig ==
    /\ pc = "ready"
    /\ slicer' = "slice_ranges_orig"
    /\ IF size <= 0 /\ n > 0
       THEN pc' = "looping" /\ spans' = spans
       ELSE pc' = "sliced" /\ spans' = SliceRangesOrig(n, size)
    /\ UNCHANGED <<n, size, splitterVars, resolverVars, fileVars, locateVars, idVars, extVars>>

\* One iteration of the while loop that cannot end: after k iterations start
\* is k * size.  The iterations followed are capped at MaxIterations.
SliceLoopIteration ==
    /\ pc = "looping"
    /\ Len(spans) < MaxIterations
    /\ LET start == Len(spans) * size
       IN  spans' = Append(spans, <<start, Min(start + size, n) - 1>>)
    /\ UNCHANGED <<pc, n, size, slicer, splitterVars, resolverVars, fileVars, locateVars, idVars, extVars>>

NextSlicer ==
    CallSliceRangesFix \/ CallChunkSpans \/ CallSliceRangesOrig \/ SliceLoopIteration

SpecSlicer == InitSlicer /\ [][NextSlicer]_vars

----------------------------------------------------------------------------
(* Specification of the sentence splitters: every text over the alphabet up *)
(* to MaxTextLen characters, and the example texts.                         *)

Alphabet == {"a", "A", ".", "?", " ", "\t", "\n", "(", ")", "]"}

TextHello ==
    <<"H", "e", "l", "l", "o", " ", "w", "o", "r", "l", "d", ".", " ", "T", "h", "i", "s", " ", "i", "s", " ", "a", " ", "t", "e", "s", "t", ".">>
TextFoo ==
    <<"f", "o", "o", " ", "(", "b", "a", "r", ".", " ", "b", "a", "z", ")", " ", "q", "u", "x", ".">>
TextParen ==
    <<"(", "A", ".", " ", "B", ".", ")", " ", "C", ".">>
TextAB ==
    <<"a", ".", "b">>
TextClosed ==
    <<"(", "a", ")", ".", " ", "A", ".">>
TextMixed ==
    <<"(", "a", "]", " ", "b", ".", " ", "A">>
SentHello1 ==
    <<"H", "e", "l", "l", "o", " ", "w", "o", "r", "l", "d", ".">>
SentHello2 ==
    <<"T", "h", "i", "s", " ", "i", "s", " ", "a", " ", "t", "e", "s", "t", ".">>

TextInOut ==
    <<"(", "a", ".", "b", ")", ".", "c">>

\* A boundary followed by a remainder with whitespace on both sides.
TextPadded == <<".", " ", " ", "A", "\t">>

ExampleTexts ==
    {TextHello, TextFoo, TextParen, TextAB, TextClosed, TextMixed, TextInOut, TextPadded}

\* every text of at most m characters of the alphabet
Texts(m) == UNION {[1..k -> Alphabet] : k \in 0..m}

InitSplitter ==
    /\ pc = "ready"
    /\ text \in Texts(MaxTextLen) \cup ExampleTexts
    /\ sentences = <<>> /\ cuts = {} /\ splitter = "none" /\ depths = {}
    /\ IdleSlicer /\ IdleResolver /\ IdleFile /\ IdleLocate /\ IdleIds /\ IdleExt

CallSplitIntoSentencesFix ==
    /\ pc = "ready"
    /\ LET r == SplitIntoSentencesFix(text)
       IN  sentences' = r.out /\ cuts' = r.cuts /\ depths' = r.depths
    /\ splitter' = "strict_fix"
    /\ pc' = "split"
    /\ UNCHANGED <<text, slicerVars, resolverVars, fileVars, locateVars, idVars, extVars>>

CallSplitSentencesStrict ==
    /\ pc = "ready"
    /\ LET r == SplitSentencesStrict(text)
       IN  sentences' = r.out /\ cuts' = r.cuts /\ depths' = r.depths
    /\ splitter' = "strict_v2"
    /\ pc' = "split"
    /\ UNCHANGED <<text, slicerVars, resolverVars, fileVars, locateVars, idVars, extVars>>

CallSplitIntoSentencesSimple ==
    /\ pc = "ready"
    /\ LET r == SplitIntoSentencesSimple(text)
       IN  sentences' = r.out /\ cuts' = r.cuts /\ depths' = r.depths
    /\ splitter' = "simple"
    /\ pc' = "split"
    /\ UNCHANGED <<text, slicerVars, resolverVars, fileVars, locateVars, idVars, extVars>>

NextSplitter ==
    CallSplitIntoSentencesFix \/ CallSplitSentencesStrict \/ CallSplitIntoSentencesSimple

SpecSplitter == InitSplitter /\ [][NextSplitter]_vars

----------------------------------------------------------------------------
(* Claims about the sentence splitters.  The boundary rules are stated here *)
(* over the text itself, with the depth as a counter over the prefix.       *)

\* Depth counter before index i: +1 on a character of op, max(d - 1, 0) on a
\* character of cl.
RECURSIVE DepthBefore(_, _, _, _)
DepthBefore(t, i, op, cl) ==
    IF i = 0 THEN 0
    ELSE LET d == DepthBefore(t, i - 1, op, cl)
             c == At(t, i - 1)
         IN  IF c \in op THEN d + 1 ELSE IF c \in cl THEN Max(d - 1, 0) ELSE d

Strict == splitter \in {"strict_fix", "strict_v2"}

\* The character at index i is one the strict scan sees as a space: a space,
\* or in the fix script a newline (replaced by a space before the scan).
ScannedAsSpace(i) ==
    \/ At(text, i) = " "
    \/ splitter = "strict_fix" /\ At(text, i) = "\n"

\* Some uppercase letter follows index i with only whitespace in between.
UpperAfterSpaces(i) ==
    \E j \in (i + 2)..(Len(text) - 1) :
        /\ IsUpper(At(text, j))
        /\ \A k \in (i + 1)..(j - 1) : IsSpace(At(text, k))

StrictCandidate(i) ==
    /\ At(text, i) \in StrictTerms
    /\ DepthBefore(text, i, Openers, Closers) = 0
    /\ i + 1 < Len(text)
    /\ UpperAfterSpaces(i)

\* The sentences end, in order, with the terminators at the cuts.
RECURSIVE SortedCuts(_)
SortedCuts(cs) ==
    IF cs = {} THEN <<>>
    ELSE LET m == CHOOSE x \in cs : \A y \in cs : x <= y
         IN  <<m>> \o SortedCuts(cs \ {m})

SentencesEndAtCuts ==
    LET sc == SortedCuts(cuts)
    IN  /\ Len(sentences) \in {Len(sc), Len(sc) + 1}
        /\ \A m \in 1..Len(sc) : sentences[m][Len(sentences[m])] = At(text, sc[m])

\* C5 as stated: under the strict policy a terminator at i ends a sentence
\* iff the depth is zero, the character at i+1 is any whitespace character
\* and the first non-whitespace character after it is an uppercase letter.
C5_AnyWhitespace ==
    (pc = "split" /\ Strict) =>
        cuts = {i \in 0..(Len(text) - 1) :
                    StrictCandidate(i) /\ IsSpace(At(text, i + 1))}

\* C5 amended: under the strict policy a terminator at i ends a sentence iff
\* the depth is zero, the character at i+1 is the space character (in the fix
\* script also a newline, which is replaced by a space before the scan; a tab
\* is not enough) and the first non-whitespace character after it is an
\* uppercase letter.  "Hello world. This is a test." gives the two sentences.
C5_StrictBoundary ==
    (pc = "split" /\ Strict) =>
        /\ cuts = {i \in 0..(Len(text) - 1) :
                       StrictCandidate(i) /\ ScannedAsSpace(i + 1)}
        /\ SentencesEndAtCuts
        /\ text = TextHello => sentences = <<SentHello1, SentHello2>>

\* C5 witness: a strict split whose terminator is followed by a space, a tab
\* and an uppercase letter.
C5_Witness ==
    /\ pc = "split" /\ splitter = "strict_fix"
    /\ text = <<".", " ", "\t", "A">>
    /\ cuts = {0} /\ Len(sentences) = 2

\* C6: under the simple policy a '.' ends a sentence iff the parenthesis
\* depth there is zero, whatever follows it; '?' and '!' never end one and
\* only '(' and ')' change the depth.  "a.b" gives "a." and "b";
\* "foo (bar. baz) qux." gives one sentence, the whole text.
C6_SimpleBoundary ==
    (pc = "split" /\ splitter = "simple") =>
        /\ cuts = {i \in 0..(Len(text) - 1) :
                       At(text, i) = "." /\ DepthBefore(text, i, {"("}, {")"}) = 0}
        /\ SentencesEndAtCuts
        /\ text = TextAB => sentences = << <<"a", ".">>, <<"b">> >>
        /\ text = TextFoo => sentences = <<TextFoo>>

\* C6 witness: a '.' inside parentheses that did not split and one outside
\* that did, with a letter right after it.
C6_Witness ==
    /\ pc = "split" /\ splitter = "simple"
    /\ text = TextInOut
    /\ cuts = {5}
    /\ sentences = << <<"(", "a", ".", "b", ")", ".">>, <<"c">> >>

\* C7: under either policy no boundary is placed at a terminator scanned at a
\* depth above zero; after an opening bracket with no closing bracket behind
\* it the text is not split; "(A. B.) C." is one sentence ending after "C.".
PolicyOpeners == IF splitter = "simple" THEN {"("} ELSE Openers
PolicyClosers == IF splitter = "simple" THEN {")"} ELSE Closers

C7_BracketSafety ==
    pc = "split" =>
        /\ \A i \in cuts : DepthBefore(text, i, PolicyOpeners, PolicyClosers) = 0
        /\ \A k \in 0..(Len(text) - 1) :
              ( /\ At(text, k) \in PolicyOpeners
                /\ \A m \in (k + 1)..(Len(text) - 1) : At(text, m) \notin PolicyClosers )
              => \A i \in cuts : i < k
        /\ text = TextParen => sentences = <<TextParen>>

\* C7 witness: a strict run over a text with a terminator inside an unclosed
\* bracket, followed by a space and an uppercase letter, that was not split.
C7_Witness ==
    /\ pc = "split" /\ splitter = "strict_fix"
    /\ text = <<"(", ".", " ", "A">>
    /\ cuts = {} /\ Len(sentences) = 1

----------------------------------------------------------------------------
(* Specification of the anchor resolver: every list of up to MaxRanges      *)
(* ranges (overlapping and empty ones included) with every offset, and the  *)
(* example of the specification's section 8.                                *)

\* every list of at most mr ranges with ends in 0..mp, the k-th with the id
\* of sub-chunk k
RangeLists(mr, mp) ==
    UNION {{[k \in 1..m |-> <<SubchunkId(1, k), f[k][1], f[k][2]>>] :
                f \in [1..m -> (0..mp) \X (0..mp)]} : m \in 0..mr}

ExampleRanges == <<<<SubchunkId(1, 1), 0, 9>>, <<SubchunkId(1, 2), 10, 19>>>>

InitResolver ==
    /\ pc = "ready"
    /\ \/ ranges \in RangeLists(MaxRanges, MaxPos) /\ char_pos \in -1..(MaxPos + 1)
       \/ ranges = ExampleRanges /\ char_pos \in {5, 12, 25}
    /\ anchor = None
    /\ IdleSlicer /\ IdleSplitter /\ IdleFile /\ IdleLocate /\ IdleIds /\ IdleExt

CallFindSubchunkIdByChar ==
    /\ pc = "ready"
    /\ anchor' = FindSubchunkIdByChar(char_pos, ranges)
    /\ pc' = "resolved"
    /\ UNCHANGED <<ranges, char_pos, slicerVars, splitterVars, fileVars, locateVars, idVars, extVars>>

NextResolver == CallFindSubchunkIdByChar

SpecResolver == InitResolver /\ [][NextResolver]_vars

\* C10: the resolver returns the id of the first range in list order with
\* cstart <= char_pos <= cend, both ends inclusive, and None when no range
\* contains char_pos; with [(0,9),(10,19)] offset 5 gives the first id, 12 the
\* second, 25 None.
Contains(k) == ranges[k][2] <= char_pos /\ char_pos <= ranges[k][3]

C10_FirstContainingRange ==
    pc = "resolved" =>
        /\ (\A k \in 1..Len(ranges) : ~Contains(k)) => anchor = None
        /\ \A k \in 1..Len(ranges) :
              (Contains(k) /\ \A j \in 1..(k - 1) : ~Contains(j))
              => anchor = ranges[k][1]
        /\ ranges = ExampleRanges =>
              /\ char_pos = 5  => anchor = SubchunkId(1, 1)
              /\ char_pos = 12 => anchor = SubchunkId(1, 2)
              /\ char_pos = 25 => anchor = None

\* C10 witness: two ranges contain the offset, which is the inclusive end of
\* the first, and the first one is returned.
C10_Witness ==
    /\ pc = "resolved" /\ Len(ranges) = 2
    /\ Contains(1) /\ Contains(2) /\ char_pos = ranges[1][3]
    /\ anchor = ranges[1][1]

----------------------------------------------------------------------------
(* Specification of the per-file processing: main() starts the first file   *)
(* at chunk ordinal 1; the file is any list of up to MaxTokens tokens of    *)
(* the vocabulary, the two window sizes any of 1..MaxChunkSize and          *)
(* 1..MaxSubSize.  One step per iteration of the loop over the chunks.      *)

Vocabulary == {<<"A">>, <<"a", ".">>, <<".", "a">>}

\* every list of at most m tokens of the vocabulary
TokenLists(m) == UNION {[1..k -> Vocabulary] : k \in 0..m}

Init ==
    /\ pc = "ready"
    /\ variant = "none"
    /\ tokens_all \in TokenLists(MaxTokens)
    /\ chunk_size \in 1..MaxChunkSize
    /\ sub_size \in 1..MaxSubSize
    /\ chunk_ranges = <<>> /\ ci = 0
    /\ next_chunk_idx = 1
    /\ chunk_rows = <<>> /\ sub_rows = <<>> /\ sent_rows = <<>>
    /\ subchunks_char_ranges = <<>> /\ chunk_words = <<>>
    /\ IdleSlicer /\ IdleSplitter /\ IdleResolver /\ IdleLocate /\ IdleIds /\ IdleExt

unusedByFile == <<slicerVars, splitterVars, resolverVars, locateVars, idVars, extVars>>

\* process_file (fix) up to the chunk loop
StartProcessFileFix ==
    /\ pc = "ready"
    /\ variant' = "fix"
    /\ chunk_ranges' = SliceRangesFix(Len(tokens_all), chunk_size)
    /\ pc' = "loop"
    /\ UNCHANGED <<chunk_size, sub_size, tokens_all, ci, next_chunk_idx, chunk_rows,
                   sub_rows, sent_rows, subchunks_char_ranges, chunk_words, unusedByFile>>

\* one iteration of for (g_start, g_end) in chunk_ranges (fix)
ChunkLoopFix ==
    /\ pc = "loop" /\ variant = "fix" /\ ci < Len(chunk_ranges)
    /\ LET r == ProcessChunkFix(tokens_all, chunk_ranges[ci + 1][1],
                                chunk_ranges[ci + 1][2], next_chunk_idx, sub_size)
       IN  /\ chunk_rows' = Append(chunk_rows, r.chunk)
           /\ sub_rows' = sub_rows \o r.subs
           /\ sent_rows' = sent_rows \o r.sents
           /\ subchunks_char_ranges' = r.ranges
           /\ chunk_words' = r.words
    /\ next_chunk_idx' = next_chunk_idx + 1
    /\ ci' = ci + 1
    /\ UNCHANGED <<pc, variant, chunk_size, sub_size, tokens_all, chunk_ranges, unusedByFile>>

\* process_file (orig) up to the chunk loop
StartProcessFileOrig ==
    /\ pc = "ready"
    /\ variant' = "orig"
    /\ chunk_ranges' = SliceRangesOrig(Len(tokens_all), chunk_size)
    /\ pc' = "loop"
    /\ UNCHANGED <<chunk_size, sub_size, tokens_all, ci, next_chunk_idx, chunk_rows,
                   sub_rows, sent_rows, subchunks_char_ranges, chunk_words, unusedByFile>>

\* one iteration of the chunk loop (orig)
ChunkLoopOrig ==
    /\ pc = "loop" /\ variant = "orig" /\ ci < Len(chunk_ranges)
    /\ LET r == ProcessChunkOrig(tokens_all, chunk_ranges[ci + 1][1],
                                 chunk_ranges[ci + 1][2], next_chunk_idx, sub_size)
       IN  /\ chunk_rows' = Append(chunk_rows, r.chunk)
           /\ sub_rows' = sub_rows \o r.subs
           /\ sent_rows' = sent_rows \o r.sents
           /\ subchunks_char_ranges' = r.ranges
           /\ chunk_words' = r.words
    /\ next_chunk_idx' = next_chunk_idx + 1
    /\ ci' = ci + 1
    /\ UNCHANGED <<pc, variant, chunk_size, sub_size, tokens_all, chunk_ranges, unusedByFile>>

\* main (v2) up to the chunk loop
StartMainV2 ==
    /\ pc = "ready"
    /\ variant' = "v2"
    /\ chunk_ranges' = ChunkSpans(Len(tokens_all), chunk_size)
    /\ pc' = "loop"
    /\ UNCHANGED <<chunk_size, sub_size, tokens_all, ci, next_chunk_idx, chunk_rows,
                   sub_rows, sent_rows, subchunks_char_ranges, chunk_words, unusedByFile>>

\* one iteration of for c_idx, (c_start, c_end) in enumerate(..., start=1) (v2)
ChunkLoopV2 ==
    /\ pc = "loop" /\ variant = "v2" /\ ci < Len(chunk_ranges)
    /\ LET r == ProcessChunkV2(tokens_all, chunk_ranges[ci + 1][1],
                               chunk_ranges[ci + 1][2], ci + 1, sub_size)
       IN  /\ sent_rows' = sent_rows \o r.sents
           /\ subchunks_char_ranges' = r.ranges
           /\ chunk_words' = r.words
    /\ ci' = ci + 1
    /\ UNCHANGED <<pc, variant, chunk_size, sub_size, tokens_all, chunk_ranges,
                   next_chunk_idx, chunk_rows, sub_rows, unusedByFile>>

\* the loop is exhausted: process_file returns, main (v2) writes its rows
EndOfChunkLoop ==
    /\ pc = "loop" /\ ci = Len(chunk_ranges)
    /\ pc' = "done"
    /\ UNCHANGED <<fileVars, unusedByFile>>

Next ==
    \/ StartProcessFileFix \/ ChunkLoopFix
    \/ StartProcessFileOrig \/ ChunkLoopOrig
    \/ StartMainV2 \/ ChunkLoopV2
    \/ EndOfChunkLoop

Spec == Init /\ [][Next]_vars

----------------------------------------------------------------------------
(* Claims about the per-file processing *)

\* 1 when the script writes token ranges with inclusive ends (orig), else 0
Incl == IF variant = "orig" THEN 1 ELSE 0

\* the sub-chunk rows of a chunk row, in the order written
SubsOf(c) == SelectSeq(sub_rows, LAMBDA r : r.chunk_id = c.chunk_id)

RECURSIVE SumTokenCount(_)
SumTokenCount(rows) ==
    IF rows = <<>> THEN 0 ELSE Head(rows).token_count + SumTokenCount(Tail(rows))

\* C3: for every chunk the token counts of its sub-chunks sum to the chunk's
\* token count (the last sub-chunk may be shorter than the window).
C3_TokenSum ==
    variant = "fix" =>
        \A i \in 1..Len(chunk_rows) :
            /\ SumTokenCount(SubsOf(chunk_rows[i])) = chunk_rows[i].token_count
            /\ \A k \in 1..Len(SubsOf(chunk_rows[i])) :
                  SubsOf(chunk_rows[i])[k].token_count \in 1..sub_size

\* C3 witness: a chunk of the fix script with a short last sub-chunk.
C3_Witness ==
    /\ variant = "fix" /\ Len(chunk_rows) >= 2
    /\ LET subs == SubsOf(chunk_rows[1])
       IN  Len(subs) >= 2 /\ subs[Len(subs)].token_count < sub_size

\* C4: for every chunk the global token ranges written for its sub-chunks,
\* in order_idx order, partition the chunk's token range: they start at the
\* chunk's start, each starts where the previous one ends, the last ends at
\* the chunk's end, and none reaches outside the chunk.  (The orig script
\* writes the chunk's and the sub-chunks' ends inclusive, the fix script
\* exclusive.)
C4_SubRangesPartitionChunk ==
    variant \in {"fix", "orig"} =>
        \A i \in 1..Len(chunk_rows) :
            LET c    == chunk_rows[i]
                subs == SubsOf(c)
            IN  /\ Len(subs) >= 1
                /\ \A k \in 1..Len(subs) :
                      /\ subs[k].order_idx = k
                      /\ subs[k].token_start < subs[k].token_end + Incl
                      /\ c.token_start <= subs[k].token_start
                      /\ subs[k].token_end <= c.token_end
                /\ subs[1].token_start = c.token_start
                /\ subs[Len(subs)].token_end = c.token_end
                /\ \A k \in 1..(Len(subs) - 1) :
                      subs[k + 1].token_start = subs[k].token_end + Incl

\* C4 witness: the second chunk of a file, cut into two sub-chunks.
C4_Witness ==
    /\ variant = "fix" /\ Len(chunk_rows) >= 2
    /\ chunk_rows[2].token_start > 0
    /\ Len(SubsOf(chunk_rows[2])) >= 2

\* C8: the character ranges built for the sub-chunks of a chunk are ordered
\* and pairwise disjoint: the inclusive end of each is strictly smaller than
\* the start of the next.
C8_CharRangesDisjoint ==
    \A k \in 1..(Len(subchunks_char_ranges) - 1) :
        subchunks_char_ranges[k][3] < subchunks_char_ranges[k + 1][2]

\* the ordinal of the chunk last processed, and the sentence rows written for it
LastChunkIdx == IF variant = "v2" THEN ci ELSE next_chunk_idx - 1
LastSentRows == SelectSeq(sent_rows, LAMBDA r : r.chunk_id = ChunkId(LastChunkIdx))

\* the tokens of the chunk last processed in which the character at p lies
TokensAt(p) ==
    {t \in 0..(Len(chunk_words) - 1) :
        /\ At(BuildCharOffsets(chunk_words), t) <= p
        /\ p < At(BuildCharOffsets(chunk_words), t) + Len(At(chunk_words, t))}

\* C9: with the whitespace tokenizer the sub-chunk recorded for a sentence is
\* the one whose token window contains the token in which the sentence's
\* first character lies, never the one before or after.
C9_AnchoredWhereItStarts ==
    ci >= 1 =>
        \A m \in 1..Len(LastSentRows) :
            LET r == LastSentRows[m]
            IN  \A t \in TokensAt(r.char_start) :
                    r.subchunk_id = SubchunkId(LastChunkIdx, (t \div sub_size) + 1)

----------------------------------------------------------------------------
(* Claims about the window slicer *)

\* C1: for every n >= 0 and size > 0 the spans returned by the slicer are
\* ordered, non-empty, pairwise disjoint half-open intervals whose union is
\* exactly [0, n): the first starts at 0, each starts where the previous one
\* ends, the last ends at n.
C1_Partition ==
    (pc = "sliced" /\ size > 0) =>
        /\ (n = 0) <=> (spans = <<>>)
        /\ n > 0 => /\ spans[1][1] = 0
                    /\ EndExcl(slicer, spans[Len(spans)]) = n
        /\ \A k \in 1..Len(spans) : spans[k][1] < EndExcl(slicer, spans[k])
        /\ \A k \in 1..(Len(spans) - 1) : spans[k + 1][1] = EndExcl(slicer, spans[k])
        /\ \A j, k \in 1..Len(spans) :
              j # k => SpanSet(slicer, spans[j]) \cap SpanSet(slicer, spans[k]) = {}
        /\ UNION {SpanSet(slicer, spans[k]) : k \in 1..Len(spans)} = 0..(n - 1)

\* C1 witness: a slicing with a short last span and more than two spans.
C1_Witness ==
    /\ pc = "sliced" /\ slicer = "slice_ranges_fix"
    /\ Len(spans) >= 3 /\ n % size # 0

\* C2: the slicer returns exactly ceil(n/size) spans; every span but the last
\* has length size and the last has length n mod size, or size when n is a
\* multiple of size.
C2_CountAndLengths ==
    (pc = "sliced" /\ size > 0) =>
        /\ Len(spans) = (n + size - 1) \div size
        /\ \A k \in 1..(Len(spans) - 1) : SpanLen(slicer, spans[k]) = size
        /\ n > 0 => SpanLen(slicer, spans[Len(spans)]) =
                        (IF n % size = 0 THEN size ELSE n % size)
        /\ (n = 8500 /\ size = 8000) =>
               [k \in 1..Len(spans) |-> SpanLen(slicer, spans[k])] = <<8000, 500>>
        /\ (n = 500 /\ size = 200) =>
               [k \in 1..Len(spans) |-> SpanLen(slicer, spans[k])] = <<200, 200, 100>>
        /\ (n = 16000 /\ size = 8000) =>
               [k \in 1..Len(spans) |-> SpanLen(slicer, spans[k])] = <<8000, 8000>>

\* C2 witness: the end-to-end scenario, sliced by the while-loop slicer.
C2_Witness ==
    /\ pc = "sliced" /\ slicer = "slice_ranges_orig"
    /\ n = 8500 /\ size = 8000 /\ Len(spans) = 2

\* C11: a window size that is zero or negative is rejected: for every n >= 0
\* and size <= 0 a call of the slicer ends in an error; it neither returns a
\* list, empty or not, nor keeps running.
C11_NonPositiveSizeRejected ==
    (size <= 0 /\ pc # "ready") => pc = "ValueError"

----------------------------------------------------------------------------
(* Sentence location in one chunk: the chunk text is decoded from the       *)
(* tokens of the file, split into sentences, and each sentence is searched  *)
(* for in the chunk text.  The file is small enough to fit one chunk.       *)

\* str.split(): the maximal runs of characters that are not whitespace.
RECURSIVE SplitWhitespace(_, _, _, _)
SplitWhitespace(t, i, cur, toks) ==
    IF i >= Len(t)
    THEN IF cur = <<>> THEN toks ELSE Append(toks, cur)
    ELSE IF IsSpace(At(t, i))
         THEN SplitWhitespace(t, i + 1, <<>>,
                              IF cur = <<>> THEN toks ELSE Append(toks, cur))
         ELSE SplitWhitespace(t, i + 1, Append(cur, At(t, i)), toks)

\* encode_tokens without tiktoken: text.split().
EncodeTokens(t) == SplitWhitespace(t, 0, <<>>, <<>>)

\* _enc.encode / _enc.decode of tiktoken: the tokens stand for consecutive
\* pieces of the text and decoding concatenates the pieces.  The pieces are
\* taken one character long; the decoded text of a run of tokens does not
\* depend on where the text is cut into pieces.
TiktokenEncode(t) == [i \in 1..Len(t) |-> <<t[i]>>]
TiktokenDecode(toks) == Join(toks)

\* sentence_char_spans_in_chunk: (start, end exclusive) of each sentence,
\* searched from the end of the previous one; a sentence that is not found
\* is taken to start there.
RECURSIVE SpansLoop(_, _, _, _, _)
SpansLoop(chunk_text, sents, k, pos, acc) ==
    IF k > Len(sents) THEN acc
    ELSE LET s == Strip(sents[k])
         IN  IF s = <<>>
             THEN SpansLoop(chunk_text, sents, k + 1, pos, Append(acc, <<pos, pos, s>>))
             ELSE LET found == Find(chunk_text, s, pos)
                      idx   == IF found = -1 THEN pos ELSE found
                  IN  SpansLoop(chunk_text, sents, k + 1, idx + Len(s),
                                Append(acc, <<idx, idx + Len(s), s>>))

SentenceCharSpansInChunk(chunk_text, sents) == SpansLoop(chunk_text, sents, 1, 0, <<>>)

\* A text of two sentences, the second of which runs over a line break.
TextTwoLines == <<"A", ".", " ", "B", "\n", "c">>

InitLocate ==
    /\ pc = "ready"
    /\ text \in Texts(MaxTextLen) \cup ExampleTexts \cup {TextTwoLines}
    /\ tokenizer \in {"whitespace", "tiktoken"}
    /\ locator = "none" /\ decoded_text = <<>> /\ sent_positions = <<>>
    /\ sentences = <<>> /\ cuts = {} /\ splitter = "none" /\ depths = {}
    /\ IdleSlicer /\ IdleResolver /\ IdleFile /\ IdleIds /\ IdleExt

unusedByLocate == <<text, tokenizer, depths, slicerVars, resolverVars, fileVars, idVars, extVars>>

\* fix script, process_file: decode the chunk, split it with the strict
\* policy, find every sentence in the chunk text.
LocateFix ==
    /\ pc = "ready"
    /\ LET chunk_text == IF tokenizer = "tiktoken"
                         THEN TiktokenDecode(TiktokenEncode(text))
                         ELSE DecodeTokens(EncodeTokens(text))
           r == SplitIntoSentencesFix(chunk_text)
       IN  /\ decoded_text' = chunk_text
           /\ sentences' = r.out /\ cuts' = r.cuts
           /\ sent_positions' = SentPositions(chunk_text, r.out)
    /\ splitter' = "strict_fix" /\ locator' = "fix"
    /\ pc' = "located"
    /\ UNCHANGED unusedByLocate

\* orig script, process_file: whitespace tokens only, simple policy.
LocateOrig ==
    /\ pc = "ready"
    /\ tokenizer = "whitespace"
    /\ LET chunk_text == JoinTokens(EncodeTokens(text))
           r == SplitIntoSentencesSimple(chunk_text)
       IN  /\ decoded_text' = chunk_text
           /\ sentences' = r.out /\ cuts' = r.cuts
           /\ sent_positions' = SentPositions(chunk_text, r.out)
    /\ splitter' = "simple" /\ locator' = "orig"
    /\ pc' = "located"
    /\ UNCHANGED unusedByLocate

\* pipeline script, main: tiktoken only, simple policy, spans with exclusive
\* ends from sentence_char_spans_in_chunk.
LocatePipeline ==
    /\ pc = "ready"
    /\ tokenizer = "tiktoken"
    /\ LET chunk_text == TiktokenDecode(TiktokenEncode(text))
           r == SplitIntoSentencesSimple(chunk_text)
       IN  /\ decoded_text' = chunk_text
           /\ sentences' = r.out /\ cuts' = r.cuts
           /\ sent_positions' = SentenceCharSpansInChunk(chunk_text, r.out)
    /\ splitter' = "simple" /\ locator' = "pipeline"
    /\ pc' = "located"
    /\ UNCHANGED unusedByLocate

NextLocate == LocateFix \/ LocateOrig \/ LocatePipeline

SpecLocate == InitLocate /\ [][NextLocate]_vars

----------------------------------------------------------------------------
(* Claims about the character spans of the sentences *)

\* Start and inclusive end of the k-th span recorded; the pipeline script
\* records exclusive ends.
PosStart(k) == sent_positions[k][1]
PosEnd(k) ==
    IF locator = "pipeline" THEN sent_positions[k][2] - 1 ELSE sent_positions[k][2]

\* C12: within a chunk the character spans recorded for the sentences are
\* strictly increasing and do not overlap: each span starts no later than it
\* ends, and ends before the next one starts.
C12_SpansIncreasing ==
    pc = "located" =>
        \A k \in 1..Len(sent_positions) :
            /\ PosStart(k) <= PosEnd(k)
            /\ k < Len(sent_positions) => PosEnd(k) < PosStart(k + 1)

\* C13: the span recorded for a sentence lies inside the chunk text and the
\* chunk text between its start and its end is the sentence, whatever chunk
\* text the tokenizer decodes, line breaks and repeated substrings included.
C13_SpanIsTheSentence ==
    (pc = "located" /\ locator \in {"fix", "orig"}) =>
        \A k \in 1..Len(sent_positions) :
            /\ 0 <= PosStart(k)
            /\ PosStart(k) <= PosEnd(k)
            /\ PosEnd(k) < Len(decoded_text)
            /\ SubSeq(decoded_text, PosStart(k) + 1, PosEnd(k) + 1) = sent_positions[k][3]

----------------------------------------------------------------------------
(* Claims about a file without tokens *)

\* C14: a text of zero tokens is not an error: the slicer returns no range
\* for n = 0, and processing the text writes no chunk, no sub-chunk and no
\* sentence and leaves the running chunk counter as it was.
C14_ZeroTokensNoRows ==
    [][tokens_all = <<>> =>
          /\ chunk_ranges' = <<>>
          /\ chunk_rows' = <<>> /\ sub_rows' = <<>> /\ sent_rows' = <<>>
          /\ next_chunk_idx' = next_chunk_idx]_vars

\* C14 witness: the fix script has processed a file without tokens to the end.
C14_Witness ==
    /\ pc = "done" /\ variant = "fix" /\ tokens_all = <<>>
    /\ chunk_ranges = <<>> /\ chunk_rows = <<>> /\ next_chunk_idx = 1

----------------------------------------------------------------------------
(* Claims about the sentences a splitter emits *)

\* The text as the splitter called scans it: split_into_sentences replaces
\* the newlines by spaces, split_sentences_strict of v2 does not.
ScannedText ==
    [k \in 1..Len(text) |->
        IF splitter # "strict_v2" /\ text[k] = "\n" THEN " " ELSE text[k]]

\* Indices of the characters after the last boundary that are not whitespace.
LastCut == IF cuts = {} THEN -1 ELSE CHOOSE x \in cuts : \A y \in cuts : y <= x
RemainderInk == {k \in (LastCut + 1)..(Len(text) - 1) : ~IsSpace(ScannedText[k + 1])}
RemainderFirst == CHOOSE k \in RemainderInk : \A m \in RemainderInk : k <= m
RemainderLast  == CHOOSE k \in RemainderInk : \A m \in RemainderInk : m <= k

\* C15: what follows the last boundary is emitted, trimmed, as the final
\* sentence whenever it is not empty after trimming, and is not emitted
\* otherwise; no sentence emitted is empty or all whitespace, and none starts
\* or ends with a whitespace character.
C15_TrimmedSentences ==
    pc = "split" =>
        /\ \A k \in 1..Len(sentences) :
              /\ sentences[k] # <<>>
              /\ ~IsSpace(sentences[k][1])
              /\ ~IsSpace(sentences[k][Len(sentences[k])])
        /\ IF RemainderInk # {}
           THEN /\ Len(sentences) = Cardinality(cuts) + 1
                /\ sentences[Len(sentences)] =
                       SubSeq(ScannedText, RemainderFirst + 1, RemainderLast + 1)
           ELSE Len(sentences) = Cardinality(cuts)

\* C15 witness: a strict split with a boundary and, after it, a remainder
\* that has whitespace on both sides.
C15_Witness ==
    /\ pc = "split" /\ splitter = "strict_fix"
    /\ text = TextPadded
    /\ sentences = << <<".">>, <<"A">> >>

\* The terminator characters of the policy of the splitter called.
PolicyTerms == IF splitter = "simple" THEN {"."} ELSE StrictTerms
NoTerminator == \A k \in 1..Len(text) : text[k] \notin PolicyTerms

\* Indices of the characters of the text that are not whitespace.
Ink      == {k \in 0..(Len(text) - 1) : ~IsSpace(ScannedText[k + 1])}
InkFirst == CHOOSE k \in Ink : \A m \in Ink : k <= m
InkLast  == CHOOSE k \in Ink : \A m \in Ink : m <= k

\* C16 as stated: every text without a terminator character of the policy
\* gives exactly one sentence, the whole text without its surrounding
\* whitespace.
C16_AlwaysOneSentence ==
    (pc = "split" /\ NoTerminator) => sentences = <<Strip(text)>>

\* C16 amended: a text without a terminator character of the policy that has
\* a character other than whitespace gives exactly one sentence, the text as
\* scanned (newlines replaced by spaces, except in v2) without its
\* surrounding whitespace; an empty or all-whitespace text gives no sentence.
C16_OneSentenceOrNone ==
    (pc = "split" /\ NoTerminator) =>
        IF Ink = {}
        THEN sentences = <<>>
        ELSE sentences = <<SubSeq(ScannedText, InkFirst + 1, InkLast + 1)>>

\* C16 witness: a text without terminator, with whitespace around it and a
\* line break inside, split by the strict splitter of the fix script.
C16_Witness ==
    /\ pc = "split" /\ splitter = "strict_fix"
    /\ text = <<" ", "a", "\n", "A">>
    /\ sentences = << <<"a", " ", "A">> >>

\* C17: the bracket depth is never negative; an opening bracket of the policy
\* adds one to it and a closing bracket sets it to max(depth - 1, 0), so a
\* closing bracket at depth zero is passed over.  The stack of the strict
\* splitters is, at every index, as long as a single counter kept that way
\* from the start of the text: a closing bracket of any kind cancels the most
\* recent opening bracket of any kind.
C17_DepthCounter ==
    pc = "split" =>
        /\ \A e \in depths :
              LET c == ScannedText[e[1] + 1]
              IN  /\ e[2] >= 0 /\ e[3] >= 0
                  /\ e[2] = DepthBefore(ScannedText, e[1], PolicyOpeners, PolicyClosers)
                  /\ e[3] = IF c \in PolicyOpeners THEN e[2] + 1
                            ELSE IF c \in PolicyClosers THEN Max(e[2] - 1, 0)
                            ELSE e[2]
        /\ \A i \in 0..(Len(text) - 1) :
              ScannedText[i + 1] \in PolicyOpeners \cup PolicyClosers =>
                  \E e \in depths : e[1] = i

\* C17 witness: the strict splitter has met a round opening bracket, a square
\* closing bracket that cancels it, and a closing bracket at depth zero.
C17_Witness ==
    /\ pc = "split" /\ splitter = "strict_fix"
    /\ text = <<"(", "]", ")", "a">>
    /\ {<<0, 0, 1>>, <<1, 1, 0>>, <<2, 0, 0>>} \subseteq depths

\* The character at index i of the text is a space or a newline.
SpaceOrNewlineAt(i) == i < Len(text) /\ At(text, i) \in {" ", "\n"}

\* C18: under both policies every newline of the text is replaced by a space
\* before the scan: no sentence emitted contains a newline, and a strict
\* terminator followed by a newline is tested exactly as one followed by a
\* space.
C18_NewlinesNormalised ==
    pc = "split" =>
        /\ \A k \in 1..Len(sentences) :
              \A j \in 1..Len(sentences[k]) : sentences[k][j] # "\n"
        /\ Strict =>
              cuts = {i \in 0..(Len(text) - 1) :
                          StrictCandidate(i) /\ SpaceOrNewlineAt(i + 1)}

----------------------------------------------------------------------------
(* Specification of the ID assignment: the runs of Spec, and the three ID   *)
(* formats applied to two tuples (chunk ordinal, sub-chunk ordinal,         *)
(* sentence ordinal).  The ordinals are small ones and the last ordinal     *)
(* that fits each padding width with the first that does not; sub-chunk     *)
(* ordinal 0 stands for a sentence that is not anchored.                    *)

ChunkOrdinals    == (1..MaxOrdinal) \cup {999999, 1000000}
SubchunkOrdinals == (0..MaxOrdinal) \cup {999, 1000}
SentenceOrdinals == (1..MaxOrdinal) \cup {999, 1000}
OrdinalTuples == ChunkOrdinals \X SubchunkOrdinals \X SentenceOrdinals

InitIds ==
    /\ pc = "assign"
    /\ ordinals \in OrdinalTuples \X OrdinalTuples
    /\ ids = <<>>
    /\ IdleSlicer /\ IdleSplitter /\ IdleResolver /\ IdleFile /\ IdleLocate
    /\ IdleExt

\* The three f-strings of the chunk loop, for both tuples.
AssignIds ==
    /\ pc = "assign"
    /\ ids' = [chunk |-> [j \in 1..2 |-> ChunkId(ordinals[j][1])],
               sub   |-> [j \in 1..2 |-> SubchunkId(ordinals[j][1], ordinals[j][2])],
               sent  |-> [j \in 1..2 |->
                            IF ordinals[j][2] > 0
                            THEN SentenceId(ordinals[j][1], ordinals[j][2], ordinals[j][3])
                            ELSE SentenceIdUnanchored(ordinals[j][1], ordinals[j][3])]]
    /\ pc' = "assigned"
    /\ UNCHANGED <<ordinals, slicerVars, splitterVars, resolverVars, fileVars, locateVars,
                   extVars>>

SpecAssign == (Init \/ InitIds) /\ [][Next \/ AssignIds]_vars

----------------------------------------------------------------------------
(* Claims about the IDs *)

\* the values of field f of the rows are pairwise different
Distinct(rows, f(_)) ==
    \A j, k \in 1..Len(rows) : j # k => f(rows[j]) # f(rows[k])
ChunkIdOf(r)    == r.chunk_id
SubchunkIdOf(r) == r.subchunk_id
SentenceIdOf(r) == r.sentence_id

\* C19: the ID formats are injective: two chunks with different ordinals, two
\* sub-chunks with different (chunk, sub-chunk) ordinals and two sentences
\* with different (chunk, sub-chunk, sentence) ordinals never get the same
\* ID, ordinals with more digits than the padding width included; and in a
\* run no two chunk rows, no two sub-chunk rows and no two sentence rows
\* have the same ID.
C19_IdsInjective ==
    /\ pc = "assigned" =>
          LET a == ordinals[1]
              b == ordinals[2]
          IN  /\ a[1] # b[1] => ids.chunk[1] # ids.chunk[2]
              /\ <<a[1], a[2]>> # <<b[1], b[2]>> => ids.sub[1] # ids.sub[2]
              /\ a # b => ids.sent[1] # ids.sent[2]
    /\ pc \in {"loop", "done"} =>
          /\ Distinct(chunk_rows, ChunkIdOf)
          /\ Distinct(sub_rows, SubchunkIdOf)
          /\ Distinct(sent_rows, SentenceIdOf)

\* C19 witness: IDs assigned to two tuples that differ only in ordinals one
\* of which is longer than its padding width.
C19_Witness ==
    /\ pc = "assigned"
    /\ ordinals = << <<1000000, 1000, 1000>>, <<1000000, 1000, 1>> >>
    /\ ids.sent[1] # ids.sent[2]

\* The fields of an ID: the pieces between its underscores.
RECURSIVE Fields(_)
Fields(id) ==
    IF \A k \in 1..Len(id) : id[k] # "_" THEN <<id>>
    ELSE LET u == CHOOSE k \in 1..Len(id) :
                      id[k] = "_" /\ \A m \in 1..(k - 1) : id[m] # "_"
         IN  <<SubSeq(id, 1, u - 1)>> \o Fields(SubSeq(id, u + 1, Len(id)))

\* Field f of the ID is the ordinal k written in exactly w decimal digits.
IsFixedWidth(id, f, k, w) ==
    LET fs == Fields(id)
    IN  /\ f <= Len(fs)
        /\ Len(fs[f]) = w
        /\ \A x \in 1..Len(fs[f]) : \E d \in 1..10 : Digits[d] = fs[f][x]
        /\ ParseInt(fs[f]) = k

\* C20: the IDs are fixed-width: a chunk id is the tag and the absolute chunk
\* ordinal in 6 digits; a sub-chunk id carries the ordinal of its chunk and
\* its own ordinal, counted from 1, in 3 digits; a sentence id carries the
\* chunk ordinal, the ordinal of the sub-chunk it is anchored to in 3 digits
\* and its own ordinal in the chunk in 3 digits; so the IDs of one level all
\* have the same length, whatever ordinal occurs.
C20_FixedWidth ==
    /\ pc = "assigned" =>
          \A j \in 1..2 :
              LET o == ordinals[j]
              IN  /\ Fields(ids.chunk[j])[1] = <<"c", "h", "u", "n", "k">>
                  /\ IsFixedWidth(ids.chunk[j], 2, o[1], CHUNK_PAD)
                  /\ Fields(ids.sub[j])[1] = <<"s", "c">>
                  /\ IsFixedWidth(ids.sub[j], 2, o[1], CHUNK_PAD)
                  /\ IsFixedWidth(ids.sub[j], 3, o[2], SUBCHUNK_PAD)
                  /\ Fields(ids.sent[j])[1] = <<"s">>
                  /\ IsFixedWidth(ids.sent[j], 2, o[1], CHUNK_PAD)
                  /\ IsFixedWidth(ids.sent[j], 3, o[2], SUBCHUNK_PAD)
                  /\ IsFixedWidth(ids.sent[j], 4, o[3], SENTENCE_PAD)
    /\ pc \in {"loop", "done"} =>
          /\ \A k \in 1..Len(chunk_rows) :
                IsFixedWidth(chunk_rows[k].chunk_id, 2, k, CHUNK_PAD)
          /\ \A k \in 1..Len(sub_rows) :
                /\ IsFixedWidth(sub_rows[k].subchunk_id, 2,
                                ParseInt(Fields(sub_rows[k].chunk_id)[2]), CHUNK_PAD)
                /\ IsFixedWidth(sub_rows[k].subchunk_id, 3,
                                sub_rows[k].order_idx, SUBCHUNK_PAD)
          /\ \A k \in 1..Len(sent_rows) :
                /\ IsFixedWidth(sent_rows[k].sentence_id, 2,
                                ParseInt(Fields(sent_rows[k].chunk_id)[2]), CHUNK_PAD)
                /\ IsFixedWidth(sent_rows[k].sentence_id, 3,
                                IF sent_rows[k].subchunk_id = <<>> THEN 0
                                ELSE SubOrderOf(sent_rows[k].subchunk_id), SUBCHUNK_PAD)
                /\ IsFixedWidth(sent_rows[k].sentence_id, 4,
                                sent_rows[k].order_idx, SENTENCE_PAD)

----------------------------------------------------------------------------
(* Specification of main (orig and fix): the loop over the input files.     *)
(* A file is a record of whether it still exists when its turn comes and    *)
(* the tokens of its text; main keeps next_chunk_index, hands it to         *)
(* process_file as chunk_base_index and takes the returned value back.      *)

\* the token lists of the files: 0..m words "A"
FileTokens(m) == {[j \in 1..k |-> <<"A">>] : k \in 0..m}

FileChoices(m) ==
    {[exists |-> TRUE, tokens |-> t] : t \in FileTokens(m)}
        \cup {[exists |-> FALSE, tokens |-> <<>>]}

FileLists(nf, m) == UNION {[1..k -> FileChoices(m)] : k \in 0..nf}

InitMain ==
    /\ pc = "start"
    /\ files \in FileLists(MaxFiles, MaxFileTokens)
    /\ fi = 0 /\ next_chunk_index = 1 /\ chunk_base_index = 1
    /\ chunk_size \in 1..MaxMainChunkSize
    /\ variant = "none" /\ sub_size = 1
    /\ tokens_all = <<>> /\ chunk_ranges = <<>> /\ ci = 0
    /\ next_chunk_idx = 1
    /\ chunk_rows = <<>> /\ sub_rows = <<>> /\ sent_rows = <<>>
    /\ subchunks_char_ranges = <<>> /\ chunk_words = <<>>
    /\ IdleSlicer /\ IdleSplitter /\ IdleResolver /\ IdleLocate /\ IdleIds
    /\ rows_written = 0 /\ IdleRerun /\ IdleVerify /\ pointer_rows = <<>>

unusedByMain == <<slicerVars, splitterVars, resolverVars, locateVars, idVars,
                  rows_written, rerunVars, verifyVars, pointer_rows>>

\* main (fix) up to the loop over the files; without files it returns
MainFix ==
    /\ pc = "start"
    /\ variant' = "fix"
    /\ next_chunk_index' = 1
    /\ pc' = IF files = <<>> THEN "done" ELSE "files"
    /\ UNCHANGED <<files, fi, chunk_base_index, chunk_size, sub_size, tokens_all,
                   chunk_ranges, ci, next_chunk_idx, chunk_rows, sub_rows, sent_rows,
                   subchunks_char_ranges, chunk_words, unusedByMain>>

\* main (orig) up to the loop over the files, which list_txt_files found
MainOrig ==
    /\ pc = "start"
    /\ \A k \in 1..Len(files) : files[k].exists
    /\ variant' = "orig"
    /\ next_chunk_index' = 1
    /\ pc' = IF files = <<>> THEN "done" ELSE "files"
    /\ UNCHANGED <<files, fi, chunk_base_index, chunk_size, sub_size, tokens_all,
                   chunk_ranges, ci, next_chunk_idx, chunk_rows, sub_rows, sent_rows,
                   subchunks_char_ranges, chunk_words, unusedByMain>>

\* if not f.exists(): continue (fix)
SkipMissingFile ==
    /\ pc = "files" /\ variant = "fix" /\ fi < Len(files)
    /\ ~files[fi + 1].exists
    /\ fi' = fi + 1
    /\ UNCHANGED <<pc, files, next_chunk_index, chunk_base_index, fileVars, unusedByMain>>

\* process_file(f, chunk_base_index=next_chunk_index, ...) up to its chunk
\* loop (fix)
CallProcessFileFix ==
    /\ pc = "files" /\ variant = "fix" /\ fi < Len(files)
    /\ files[fi + 1].exists
    /\ chunk_base_index' = next_chunk_index
    /\ tokens_all' = files[fi + 1].tokens
    /\ chunk_ranges' = SliceRangesFix(Len(files[fi + 1].tokens), chunk_size)
    /\ next_chunk_idx' = next_chunk_index
    /\ ci' = 0
    /\ pc' = "loop"
    /\ UNCHANGED <<files, fi, next_chunk_index, variant, chunk_size, sub_size,
                   chunk_rows, sub_rows, sent_rows, subchunks_char_ranges, chunk_words,
                   unusedByMain>>

\* process_file(f, chunk_base_index=next_chunk_index, ...) up to its chunk
\* loop (orig)
CallProcessFileOrig ==
    /\ pc = "files" /\ variant = "orig" /\ fi < Len(files)
    /\ chunk_base_index' = next_chunk_index
    /\ tokens_all' = files[fi + 1].tokens
    /\ chunk_ranges' = SliceRangesOrig(Len(files[fi + 1].tokens), chunk_size)
    /\ next_chunk_idx' = next_chunk_index
    /\ ci' = 0
    /\ pc' = "loop"
    /\ UNCHANGED <<files, fi, next_chunk_index, variant, chunk_size, sub_size,
                   chunk_rows, sub_rows, sent_rows, subchunks_char_ranges, chunk_words,
                   unusedByMain>>

ReturnFromProcessFile_KeepBase ==
    /\ pc = "loop" /\ ci = Len(chunk_ranges)
    /\ fi' = fi + 1
    /\ pc' = "files"
    /\ UNCHANGED <<files, next_chunk_index, chunk_base_index, fileVars, unusedByMain>>

\* return next_chunk_idx, and next_chunk_index = process_file(...) in main
ReturnFromProcessFile ==
    /\ pc = "loop" /\ ci = Len(chunk_ranges)
    /\ next_chunk_index' = next_chunk_idx
    /\ fi' = fi + 1
    /\ pc' = "files"
    /\ UNCHANGED <<files, chunk_base_index, fileVars, unusedByMain>>

\* the loop over the files is exhausted
EndOfMain ==
    /\ pc = "files" /\ fi = Len(files)
    /\ pc' = "done"
    /\ UNCHANGED <<mainVars, fileVars, unusedByMain>>

NextMain ==
    \/ MainFix \/ MainOrig
    \/ SkipMissingFile
    \/ CallProcessFileFix \/ CallProcessFileOrig
    \/ ChunkLoopFix \/ ChunkLoopOrig
    \/ ReturnFromProcessFile
    \/ EndOfMain

SpecMain == InitMain /\ [][NextMain]_vars

----------------------------------------------------------------------------
(* Claims about the numbering of the chunks across files *)

\* the chunk rows written by the call of process_file in progress (or the
\* last one): the last ci rows
RowsOfCall == SubSeq(chunk_rows, Len(chunk_rows) - ci + 1, Len(chunk_rows))

\* C21: process_file called with base b on a file of k chunks gives the
\* chunks the ordinals b, b+1, ..., b+k-1 in order and returns b+k, which
\* main takes as the next base; over the whole run, which starts at base 1,
\* the chunk ordinals of all files are 1, 2, 3, ... without gap or duplicate.
C21_ConsecutiveOrdinals ==
    /\ pc \in {"loop", "files", "done"} =>
          /\ Len(RowsOfCall) = ci
          /\ \A j \in 1..ci : RowsOfCall[j].chunk_id = ChunkId(chunk_base_index + j - 1)
          /\ next_chunk_idx = chunk_base_index + ci
    /\ pc \in {"files", "done"} =>
          /\ ci = Len(chunk_ranges)
          /\ next_chunk_index = chunk_base_index + Len(chunk_ranges)
    /\ \A k \in 1..Len(chunk_rows) : chunk_rows[k].chunk_id = ChunkId(k)
    /\ pc \in {"files", "done"} => next_chunk_index = Len(chunk_rows) + 1

\* three files, the second one empty, have been processed and the third
\* started at a base above 1
C21_Witness ==
    /\ pc = "done" /\ fi = 3
    /\ files[1].tokens # <<>> /\ files[2].exists /\ files[2].tokens = <<>>
    /\ files[3].tokens # <<>>
    /\ chunk_base_index > 1 /\ Len(chunk_rows) >= 3

----------------------------------------------------------------------------
(* Specification of the anchoring of the sentences of one chunk, from the   *)
(* text of a file that fits one chunk: fix with either tokenizer, orig and  *)
(* v2 with the whitespace tokenizer.                                        *)

\* One iteration of the chunk loop of process_file (fix) under
\* --tokenizer tiktoken: the sub-chunk windows are token windows, the
\* offsets and the sub-chunk texts are taken from chunk_text.split().
ProcessChunkFixTiktoken(toks, g_start, g_end, chunk_idx, ssz) ==
    LET chunk_tokens == Slice(toks, g_start, g_end)
        chunk_text   == TiktokenDecode(chunk_tokens)
        words        == SplitWhitespace(chunk_text, 0, <<>>, <<>>)
        char_offsets == BuildCharOffsets(words)
        sub_local    == SliceRangesFix(Len(chunk_tokens), ssz)
        rs == [k \in 1..Len(sub_local) |->
                  SubCharRangeFix(chunk_idx, k, sub_local[k], char_offsets, words, chunk_text)]
        sents == SplitIntoSentencesFix(chunk_text).out
    IN  [chunk |-> [chunk_id    |-> ChunkId(chunk_idx),
                    token_start |-> g_start,
                    token_end   |-> g_end,
                    token_count |-> g_end - g_start,
                    pali_text   |-> chunk_text],
         subs  |-> [k \in 1..Len(sub_local) |->
                       SubRowFix(chunk_idx, g_start, k, sub_local[k], words)],
         ranges |-> rs,
         sents |-> SentenceRows(chunk_idx, SentPositions(chunk_text, sents), rs),
         words |-> words]

AnchorAlphabet == {"A", "a", ".", " ", "\n"}

AnchorTexts(m) == UNION {[1..k -> AnchorAlphabet] : k \in 0..m}

InitAnchor ==
    /\ pc = "chunk"
    /\ text \in AnchorTexts(MaxAnchorLen) \cup {TextTwoLines}
    /\ tokenizer \in {"whitespace", "tiktoken"}
    /\ sub_size \in 1..MaxAnchorSub
    /\ sentences = <<>> /\ cuts = {} /\ splitter = "none" /\ depths = {}
    /\ locator = "none" /\ decoded_text = <<>> /\ sent_positions = <<>>
    /\ variant = "none" /\ chunk_size = 1
    /\ tokens_all = <<>> /\ chunk_ranges = <<>> /\ ci = 0
    /\ next_chunk_idx = 1
    /\ chunk_rows = <<>> /\ sub_rows = <<>> /\ sent_rows = <<>>
    /\ subchunks_char_ranges = <<>> /\ chunk_words = <<>>
    /\ IdleSlicer /\ IdleResolver /\ IdleIds /\ IdleExt

unusedByAnchor == <<pc, text, tokenizer, sub_size, cuts, splitter, depths, locator,
                    sent_positions, chunk_size, chunk_ranges, ci, next_chunk_idx,
                    slicerVars, resolverVars, idVars, extVars>>

\* the empty result of a file without tokens
NoChunk == [chunk |-> <<>>, subs |-> <<>>, ranges |-> <<>>, sents |-> <<>>, words |-> <<>>]

\* process_file (fix) on a file of one chunk
AnchorFix ==
    /\ pc = "chunk" /\ variant = "none"
    /\ LET toks == IF tokenizer = "tiktoken" THEN TiktokenEncode(text)
                                              ELSE EncodeTokens(text)
           r == IF toks = <<>> THEN NoChunk
                ELSE IF tokenizer = "tiktoken"
                     THEN ProcessChunkFixTiktoken(toks, 0, Len(toks), 1, sub_size)
                     ELSE ProcessChunkFix(toks, 0, Len(toks), 1, sub_size)
           chunk_text == IF tokenizer = "tiktoken" THEN TiktokenDecode(toks)
                                                    ELSE DecodeTokens(toks)
       IN  /\ tokens_all' = toks
           /\ decoded_text' = chunk_text
           /\ sentences' = IF toks = <<>> THEN <<>>
                                          ELSE SplitIntoSentencesFix(chunk_text).out
           /\ chunk_rows' = IF toks = <<>> THEN <<>> ELSE <<r.chunk>>
           /\ sub_rows' = r.subs
           /\ sent_rows' = r.sents
           /\ subchunks_char_ranges' = r.ranges
           /\ chunk_words' = r.words
    /\ variant' = "fix"
    /\ UNCHANGED unusedByAnchor

\* process_file (orig) on a file of one chunk
AnchorOrig ==
    /\ pc = "chunk" /\ variant = "none" /\ tokenizer = "whitespace"
    /\ LET toks == EncodeTokens(text)
           r == IF toks = <<>> THEN NoChunk
                ELSE ProcessChunkOrig(toks, 0, Len(toks) - 1, 1, sub_size)
           chunk_text == JoinTokens(toks)
       IN  /\ tokens_all' = toks
           /\ decoded_text' = chunk_text
           /\ sentences' = IF toks = <<>> THEN <<>>
                                          ELSE SplitIntoSentencesSimple(chunk_text).out
           /\ chunk_rows' = IF toks = <<>> THEN <<>> ELSE <<r.chunk>>
           /\ sub_rows' = r.subs
           /\ sent_rows' = r.sents
           /\ subchunks_char_ranges' = r.ranges
           /\ chunk_words' = r.words
    /\ variant' = "orig"
    /\ UNCHANGED unusedByAnchor

\* main (v2) on a file of one chunk
AnchorV2 ==
    /\ pc = "chunk" /\ variant = "none" /\ tokenizer = "whitespace"
    /\ LET toks == EncodeTokens(text)
           r == IF toks = <<>> THEN NoChunk
                ELSE ProcessChunkV2(toks, 0, Len(toks), 1, sub_size)
           chunk_text == DecodeTokens(toks)
       IN  /\ tokens_all' = toks
           /\ decoded_text' = chunk_text
           /\ sentences' = IF toks = <<>> THEN <<>>
                                          ELSE SplitSentencesStrict(chunk_text).out
           /\ sent_rows' = r.sents
           /\ subchunks_char_ranges' = r.ranges
           /\ chunk_words' = r.words
    /\ variant' = "v2"
    /\ UNCHANGED <<chunk_rows, sub_rows, unusedByAnchor>>

NextAnchor == AnchorFix \/ AnchorOrig \/ AnchorV2

SpecAnchor == InitAnchor /\ [][NextAnchor]_vars

----------------------------------------------------------------------------
(* Claims about sentences without an anchor *)

\* the offset lies in none of the sub-chunk ranges
InNoRange(pos, rs) == \A k \in 1..Len(rs) : ~(rs[k][2] <= pos /\ pos <= rs[k][3])

\* the sub-chunk field of a sentence id
SubFieldOf(sentence_id) == Fields(sentence_id)[3]

Sentinel == <<"0", "0", "0">>

\* C22: every sentence of the chunk gets its row, whether it is anchored or
\* not; a sentence whose start offset lies in no sub-chunk range has an
\* empty sub-chunk reference and the ordinal 000 in its sentence id, and 000
\* is the sub-chunk ordinal of a sentence id exactly when the sentence is
\* not anchored.
C22_UnanchoredSentinel ==
    variant # "none" =>
        /\ Len(sent_rows) = Len(sentences)
        /\ \A k \in 1..Len(sent_rows) :
              /\ sent_rows[k].order_idx = k
              /\ sent_rows[k].pali_text = sentences[k]
              /\ InNoRange(sent_rows[k].char_start, subchunks_char_ranges)
                     <=> sent_rows[k].subchunk_id = <<>>
              /\ sent_rows[k].subchunk_id = <<>>
                     <=> SubFieldOf(sent_rows[k].sentence_id) = Sentinel

\* a sentence without an anchor is followed by a sentence with one
C22_Witness ==
    /\ variant # "none"
    /\ \E k \in 1..Len(sent_rows) : \E m \in (k + 1)..Len(sent_rows) :
          /\ sent_rows[k].subchunk_id = <<>>
          /\ SubFieldOf(sent_rows[k].sentence_id) = Sentinel
          /\ sent_rows[m].subchunk_id # <<>>

----------------------------------------------------------------------------
(* Specification of a repeated run of process_file (fix): the same tokens,  *)
(* window sizes and chunk_base_index are processed twice, the output of the *)
(* first run is kept as first_run.                                          *)

InitRerun ==
    /\ pc = "ready"
    /\ variant = "fix"
    /\ tokens_all \in TokenLists(MaxRerunTokens)
    /\ chunk_size \in 1..MaxMainChunkSize
    /\ sub_size \in 1..MaxAnchorSub
    /\ chunk_base_index \in 1..MaxBase
    /\ run = 1 /\ first_run = <<>>
    /\ chunk_ranges = <<>> /\ ci = 0
    /\ next_chunk_idx = 1
    /\ chunk_rows = <<>> /\ sub_rows = <<>> /\ sent_rows = <<>>
    /\ subchunks_char_ranges = <<>> /\ chunk_words = <<>>
    /\ IdleSlicer /\ IdleSplitter /\ IdleResolver /\ IdleLocate /\ IdleIds
    /\ files = <<>> /\ fi = 0 /\ next_chunk_index = 1
    /\ rows_written = 0 /\ IdleVerify /\ pointer_rows = <<>>

unusedByRerun == <<slicerVars, splitterVars, resolverVars, locateVars, idVars,
                   files, fi, next_chunk_index, rows_written, verifyVars, pointer_rows>>

RunProcessFile_CarryOrdinal ==
    /\ pc = "ready"
    /\ chunk_ranges' = SliceRangesFix(Len(tokens_all), chunk_size)
    /\ ci' = 0
    /\ chunk_rows' = <<>> /\ sub_rows' = <<>> /\ sent_rows' = <<>>
    /\ pc' = "loop"
    /\ UNCHANGED <<variant, chunk_size, sub_size, tokens_all, next_chunk_idx,
                   subchunks_char_ranges, chunk_words, chunk_base_index, rerunVars,
                   unusedByRerun>>

\* open_csv_writers opens the three files anew ("w") and process_file (fix)
\* runs up to its chunk loop: next_chunk_idx = chunk_base_index
RunProcessFile ==
    /\ pc = "ready"
    /\ chunk_ranges' = SliceRangesFix(Len(tokens_all), chunk_size)
    /\ next_chunk_idx' = chunk_base_index
    /\ ci' = 0
    /\ chunk_rows' = <<>> /\ sub_rows' = <<>> /\ sent_rows' = <<>>
    /\ pc' = "loop"
    /\ UNCHANGED <<variant, chunk_size, sub_size, tokens_all,
                   subchunks_char_ranges, chunk_words, chunk_base_index, rerunVars,
                   unusedByRerun>>

\* the first run returns; its rows are kept for the comparison
EndOfFirstRun ==
    /\ pc = "loop" /\ ci = Len(chunk_ranges) /\ run = 1
    /\ first_run' = <<chunk_rows, sub_rows, sent_rows>>
    /\ run' = 2
    /\ pc' = "ready"
    /\ UNCHANGED <<fileVars, chunk_base_index, unusedByRerun>>

\* the second run returns
EndOfSecondRun ==
    /\ pc = "loop" /\ ci = Len(chunk_ranges) /\ run = 2
    /\ pc' = "done"
    /\ UNCHANGED <<fileVars, chunk_base_index, rerunVars, unusedByRerun>>

NextRerun == RunProcessFile \/ ChunkLoopFix \/ EndOfFirstRun \/ EndOfSecondRun

SpecRerun == InitRerun /\ [][NextRerun]_vars

\* r is an initial part of s
IsPrefix(r, s) == Len(r) <= Len(s) /\ r = SubSeq(s, 1, Len(r))

----------------------------------------------------------------------------
(* Specification of process_file (fix) row by row: every writerow is a step *)
(* and the run may stop with an exception (an I/O error of a writerow, an   *)
(* interrupt) at any point of a chunk; main's finally then closes the three *)
(* files with the rows written so far.                                      *)

InitWrite ==
    /\ pc = "ready"
    /\ variant = "none"
    /\ tokens_all \in TokenLists(MaxRerunTokens)
    /\ chunk_size \in 1..MaxMainChunkSize
    /\ sub_size \in 1..MaxAnchorSub
    /\ chunk_ranges = <<>> /\ ci = 0
    /\ next_chunk_idx = 1
    /\ chunk_rows = <<>> /\ sub_rows = <<>> /\ sent_rows = <<>>
    /\ subchunks_char_ranges = <<>> /\ chunk_words = <<>>
    /\ IdleSlicer /\ IdleSplitter /\ IdleResolver /\ IdleLocate /\ IdleIds /\ IdleExt

unusedByWrite == <<slicerVars, splitterVars, resolverVars, locateVars, idVars,
                   mainVars, rerunVars, verifyVars, pointer_rows>>

\* what the iteration in progress writes
CurrentChunk ==
    ProcessChunkFix(tokens_all, chunk_ranges[ci + 1][1], chunk_ranges[ci + 1][2],
                    next_chunk_idx, sub_size)

\* chunks_w.writerow([...]) at the head of the iteration
WriteChunkRow ==
    /\ pc = "loop" /\ variant = "fix" /\ ci < Len(chunk_ranges)
    /\ rows_written = 0
    /\ chunk_rows' = Append(chunk_rows, CurrentChunk.chunk)
    /\ subchunks_char_ranges' = <<>>
    /\ chunk_words' = CurrentChunk.words
    /\ rows_written' = 1
    /\ UNCHANGED <<pc, variant, chunk_size, sub_size, tokens_all, chunk_ranges, ci,
                   next_chunk_idx, sub_rows, sent_rows, unusedByWrite>>

\* one iteration of the loop over sub_local: sub_w.writerow([...])
WriteSubRow ==
    /\ pc = "loop" /\ variant = "fix" /\ ci < Len(chunk_ranges)
    /\ rows_written >= 1 /\ rows_written <= Len(CurrentChunk.subs)
    /\ sub_rows' = Append(sub_rows, CurrentChunk.subs[rows_written])
    /\ subchunks_char_ranges' =
           Append(subchunks_char_ranges, CurrentChunk.ranges[rows_written])
    /\ rows_written' = rows_written + 1
    /\ UNCHANGED <<pc, variant, chunk_size, sub_size, tokens_all, chunk_ranges, ci,
                   next_chunk_idx, chunk_rows, sent_rows, chunk_words, unusedByWrite>>

\* one iteration of the loop over sent_positions: sent_w.writerow([...])
WriteSentenceRow ==
    /\ pc = "loop" /\ variant = "fix" /\ ci < Len(chunk_ranges)
    /\ rows_written > Len(CurrentChunk.subs)
    /\ rows_written <= Len(CurrentChunk.subs) + Len(CurrentChunk.sents)
    /\ sent_rows' =
           Append(sent_rows, CurrentChunk.sents[rows_written - Len(CurrentChunk.subs)])
    /\ rows_written' = rows_written + 1
    /\ UNCHANGED <<pc, variant, chunk_size, sub_size, tokens_all, chunk_ranges, ci,
                   next_chunk_idx, chunk_rows, sub_rows, subchunks_char_ranges,
                   chunk_words, unusedByWrite>>

\* next_chunk_idx += 1 at the foot of the iteration
EndOfChunk ==
    /\ pc = "loop" /\ variant = "fix" /\ ci < Len(chunk_ranges)
    /\ rows_written = 1 + Len(CurrentChunk.subs) + Len(CurrentChunk.sents)
    /\ next_chunk_idx' = next_chunk_idx + 1
    /\ ci' = ci + 1
    /\ rows_written' = 0
    /\ UNCHANGED <<pc, variant, chunk_size, sub_size, tokens_all, chunk_ranges,
                   chunk_rows, sub_rows, sent_rows, subchunks_char_ranges,
                   chunk_words, unusedByWrite>>

\* an exception leaves process_file in the middle of a chunk; nothing
\* catches it before main's finally, which closes the files
RaiseInChunk ==
    /\ pc = "loop" /\ variant = "fix" /\ ci < Len(chunk_ranges)
    /\ pc' = "failed"
    /\ UNCHANGED <<fileVars, rows_written, unusedByWrite>>

\* the loop is exhausted and process_file returns
ReturnAfterWrites ==
    /\ pc = "loop" /\ ci = Len(chunk_ranges)
    /\ pc' = "done"
    /\ UNCHANGED <<fileVars, rows_written, unusedByWrite>>

\* process_file (fix) up to the chunk loop
StartWrites ==
    /\ pc = "ready"
    /\ variant' = "fix"
    /\ chunk_ranges' = SliceRangesFix(Len(tokens_all), chunk_size)
    /\ pc' = "loop"
    /\ UNCHANGED <<chunk_size, sub_size, tokens_all, ci, next_chunk_idx, chunk_rows,
                   sub_rows, sent_rows, subchunks_char_ranges, chunk_words,
                   rows_written, unusedByWrite>>

NextWrite ==
    \/ StartWrites
    \/ WriteChunkRow \/ WriteSubRow \/ WriteSentenceRow \/ EndOfChunk
    \/ RaiseInChunk
    \/ ReturnAfterWrites

SpecWrite == InitWrite /\ [][NextWrite]_vars

----------------------------------------------------------------------------
(* Claims about the rows of a chunk after a failure *)

\* the rows of the sequence that belong to the chunk with the ordinal k
RowsOfChunk(rows, k) == SelectSeq(rows, LAMBDA r : r.chunk_id = ChunkId(k))

\* what process_file writes for the k-th chunk range of the file
WholeChunk(k) ==
    ProcessChunkFix(tokens_all, chunk_ranges[k][1], chunk_ranges[k][2], k, sub_size)

ChunkComplete(k) ==
    /\ RowsOfChunk(chunk_rows, k) = <<WholeChunk(k).chunk>>
    /\ RowsOfChunk(sub_rows, k) = WholeChunk(k).subs
    /\ RowsOfChunk(sent_rows, k) = WholeChunk(k).sents

ChunkAbsent(k) ==
    /\ RowsOfChunk(chunk_rows, k) = <<>>
    /\ RowsOfChunk(sub_rows, k) = <<>>
    /\ RowsOfChunk(sent_rows, k) = <<>>

\* C24: the records of a chunk are written atomically: after a failure in
\* the middle of a chunk the output holds, of every chunk, either the chunk
\* row with all its sub-chunk rows and all its sentence rows, or none of
\* them.
C24_AllOrNothing ==
    pc = "failed" =>
        \A k \in 1..Len(chunk_ranges) : ChunkComplete(k) \/ ChunkAbsent(k)

\* the rows of the chunks before the one in progress are complete, whenever
\* the run stops
C24_EarlierChunksComplete ==
    pc \in {"loop", "failed", "done"} => \A k \in 1..ci : ChunkComplete(k)

----------------------------------------------------------------------------
(* Specification of check 3 of verify_tokens_and_anchors.py: the column     *)
(* subchunk_id of sentences.csv is read with pandas.read_csv, compared with *)
(* "" and averaged, and the mean is compared with 0.99.                     *)

NaN == <<"NaN">>         \* the missing value of pandas

SomeSubchunkId == SubchunkId(1, 1)

\* the column as it stands in the file: a sub-chunk id, or nothing for a
\* sentence without an anchor
CsvColumns(m) == UNION {[1..k -> {SomeSubchunkId, <<>>}] : k \in 0..m}

\* 100 rows, the last one without anchor
ColumnOfHundred == [k \in 1..100 |-> IF k = 100 THEN <<>> ELSE SomeSubchunkId]

InitVerify ==
    /\ pc = "csv"
    /\ subchunk_id_column \in CsvColumns(MaxCsvRows) \cup {ColumnOfHundred}
    /\ verdict = "none"
    /\ IdleSlicer /\ IdleSplitter /\ IdleResolver /\ IdleFile /\ IdleLocate /\ IdleIds
    /\ IdleMain /\ rows_written = 0 /\ IdleRerun /\ pointer_rows = <<>>

unusedByVerify == <<slicerVars, splitterVars, resolverVars, fileVars, locateVars,
                    idVars, mainVars, rows_written, rerunVars, pointer_rows>>

\* pd.read_csv with its default na_values: an empty field is read as NaN
ReadCsvField(f) == IF f = <<>> THEN NaN ELSE f

\* Series.ne(""): NaN differs from every string
Ne(v, w) == v # w

\* Series.mean() of a column of booleans as the fraction <<sum, count>>;
\* the mean of an empty column is NaN
Mean(bs) ==
    IF bs = <<>> THEN NaN
    ELSE <<Cardinality({k \in 1..Len(bs) : bs[k]}), Len(bs)>>

\* anchored > 0.99; a comparison with NaN is false
Greater99Percent(m) == m # NaN /\ 100 * m[1] > 99 * m[2]

\* dft = pd.read_csv(SENTS)
ReadCsv ==
    /\ pc = "csv"
    /\ subchunk_id_column' =
           [k \in 1..Len(subchunk_id_column) |-> ReadCsvField(subchunk_id_column[k])]
    /\ pc' = "read"
    /\ UNCHANGED <<verdict, unusedByVerify>>

\* anchored = dft["subchunk_id"].ne("").mean(); ok(anchored > 0.99, ...)
CheckAnchored ==
    /\ pc = "read"
    /\ LET anchored == Mean([k \in 1..Len(subchunk_id_column) |->
                                 Ne(subchunk_id_column[k], <<>>)])
       IN  verdict' = IF Greater99Percent(anchored) THEN "pass" ELSE "fail"
    /\ pc' = "checked"
    /\ UNCHANGED <<subchunk_id_column, unusedByVerify>>

NextVerify == ReadCsv \/ CheckAnchored

SpecVerify == InitVerify /\ [][NextVerify]_vars

\* the sentences of the file that have an anchor, and all of them
CountAnchored == Cardinality({k \in 1..Len(subchunk_id_column) :
                                 subchunk_id_column[k] \notin {<<>>, NaN}})
CountTotal == Len(subchunk_id_column)

\* C25: the verifier reports a failure exactly when the ratio
\* count(anchored) / count(total) is below 0.99; a ratio of 0.99 or more
\* passes.
C25_FlagsBelowThreshold ==
    (pc = "checked" /\ CountTotal > 0) =>
        (verdict = "fail" <=> 100 * CountAnchored < 99 * CountTotal)

----------------------------------------------------------------------------
(* Specification of the scripts that map the sentences of a chunk to its    *)
(* sub-chunks with a running token pointer: single_chunk_subchunk_sentence, *)
(* make_wide_table, pipeline_chunk_subchunk_sentence (tiktoken) and         *)
(* scripts/text_to_ids_and_dicts (tiktoken, or str.split when tiktoken is   *)
(* missing).  The text of the file fits one chunk.                          *)

\* len(enc.encode(sent_text)) / len(encode_txt(sent_text))
TokenCount(tk, t) ==
    IF tk = "tiktoken" THEN Len(TiktokenEncode(t)) ELSE Len(EncodeTokens(t))

\* sub_idx0 = token_ptr_in_chunk // SUBCHUNK_TOKENS, clamped to the
\* sub-chunks there are; None (-1) without sub-chunks
ClampedSubIndex(ptr, n_sub, ssz) ==
    IF n_sub > 0 THEN Max(0, Min(n_sub - 1, ptr \div ssz)) ELSE 0 - 1

\* the loop over the sentences of the chunk: the pointer used for each
\* sentence and the index of the sub-chunk it is given
RECURSIVE PointerLoop(_, _, _, _, _, _, _)
PointerLoop(tk, sents, n_sub, ssz, k, token_ptr_in_chunk, rows) ==
    IF k > Len(sents) THEN rows
    ELSE PointerLoop(tk, sents, n_sub, ssz, k + 1,
                     token_ptr_in_chunk + TokenCount(tk, sents[k]),
                     Append(rows, [order_idx     |-> k,
                                   sentence_text |-> sents[k],
                                   token_ptr     |-> token_ptr_in_chunk,
                                   sub_idx0      |-> ClampedSubIndex(token_ptr_in_chunk,
                                                                     n_sub, ssz)]))

InitPointer ==
    /\ pc = "chunk"
    /\ text \in AnchorTexts(MaxAnchorLen) \cup {TextTwoLines}
    /\ tokenizer \in {"whitespace", "tiktoken"}
    /\ sub_size \in 1..MaxAnchorSub
    /\ pointer_rows = <<>>
    /\ sentences = <<>> /\ cuts = {} /\ splitter = "none" /\ depths = {}
    /\ locator = "none" /\ decoded_text = <<>> /\ sent_positions = <<>>
    /\ variant = "none" /\ chunk_size = 1
    /\ tokens_all = <<>> /\ chunk_ranges = <<>> /\ ci = 0
    /\ next_chunk_idx = 1
    /\ chunk_rows = <<>> /\ sub_rows = <<>> /\ sent_rows = <<>>
    /\ subchunks_char_ranges = <<>> /\ chunk_words = <<>>
    /\ IdleSlicer /\ IdleResolver /\ IdleIds
    /\ IdleMain /\ rows_written = 0 /\ IdleRerun /\ IdleVerify

unusedByPointer == <<text, tokenizer, sub_size, cuts, splitter, depths, locator,
                     sent_positions, variant, chunk_size, ci, next_chunk_idx,
                     chunk_rows, sub_rows, sent_rows, subchunks_char_ranges,
                     chunk_words, slicerVars, resolverVars, idVars,
                     mainVars, rows_written, rerunVars, verifyVars>>

\* the chunk loop of the tiktoken scripts, for the one chunk of the text
MapWithTiktoken ==
    /\ pc = "chunk" /\ tokenizer = "tiktoken"
    /\ LET chunk_tokens == TiktokenEncode(text)
           chunk_text   == TiktokenDecode(chunk_tokens)
           rel_spans    == ChunkSpans(Len(chunk_tokens), sub_size)
           sents        == SplitIntoSentencesSimple(chunk_text).out
       IN  /\ tokens_all' = chunk_tokens
           /\ decoded_text' = chunk_text
           /\ chunk_ranges' = rel_spans
           /\ sentences' = sents
           /\ pointer_rows' = PointerLoop("tiktoken", sents, Len(rel_spans), sub_size,
                                          1, 0, <<>>)
    /\ pc' = "mapped"
    /\ UNCHANGED unusedByPointer

\* the chunk loop of text_to_ids_and_dicts with the whitespace fallback
MapWithWhitespace ==
    /\ pc = "chunk" /\ tokenizer = "whitespace"
    /\ LET chunk_tokens == EncodeTokens(text)
           chunk_text   == DecodeTokens(chunk_tokens)
           sub_spans    == ChunkSpans(Len(chunk_tokens), sub_size)
           sents        == SplitIntoSentencesSimple(chunk_text).out
       IN  /\ tokens_all' = chunk_tokens
           /\ decoded_text' = chunk_text
           /\ chunk_ranges' = sub_spans
           /\ sentences' = sents
           /\ pointer_rows' = PointerLoop("whitespace", sents, Len(sub_spans), sub_size,
                                          1, 0, <<>>)
    /\ pc' = "mapped"
    /\ UNCHANGED unusedByPointer

NextPointer == MapWithTiktoken \/ MapWithWhitespace

SpecPointer == InitPointer /\ [][NextPointer]_vars

----------------------------------------------------------------------------
(* Claims about the token pointer *)

\* the index in the chunk text at which the k-th sentence starts (-1 when
\* the sentence is not a piece of the chunk text)
SentenceStart(k) == SentPositions(decoded_text, sentences)[k][1]

\* the index, among the tokens of the chunk, of the token that holds the
\* character at index c of the chunk text
TokenHolding(c) ==
    IF tokenizer = "tiktoken" THEN c
    ELSE LET offsets == BuildCharOffsets(tokens_all)
         IN  CHOOSE i \in 0..(Len(tokens_all) - 1) :
                 At(offsets, i) <= c /\ c < At(offsets, i) + Len(At(tokens_all, i))

\* C26: the pointer used for sentence k is the index, among the tokens of
\* the chunk, of the token in which sentence k starts, so that the sentence
\* is given the sub-chunk whose token window holds that token.
C26_PointerIsSentenceStart ==
    pc = "mapped" =>
        \A k \in 1..Len(pointer_rows) :
            SentenceStart(k) >= 0 =>
                /\ pointer_rows[k].token_ptr = TokenHolding(SentenceStart(k))
                /\ pointer_rows[k].sub_idx0 = TokenHolding(SentenceStart(k)) \div sub_size

----------------------------------------------------------------------------
(* Claims about the anchoring under the whitespace tokenizer *)

\* C27: with the whitespace tokenizer every sentence written by the scripts
\* that anchor by character range starts on a character that is not
\* whitespace and lies in the range of some sub-chunk, so that its row has a
\* sub-chunk id and a sub-chunk ordinal of at least 1 in its sentence id.
C27_AlwaysAnchored ==
    (variant # "none" /\ tokenizer = "whitespace") =>
        \A k \in 1..Len(sent_rows) :
            /\ sent_rows[k].char_start >= 0
            /\ sent_rows[k].char_start < Len(decoded_text)
            /\ ~IsSpace(At(decoded_text, sent_rows[k].char_start))
            /\ ~InNoRange(sent_rows[k].char_start, subchunks_char_ranges)
            /\ sent_rows[k].subchunk_id # <<>>
            /\ SubFieldOf(sent_rows[k].sentence_id) # Sentinel
            /\ ParseInt(SubFieldOf(sent_rows[k].sentence_id)) >= 1

\* two sentences of whitespace tokens are anchored in different sub-chunks
C27_Witness ==
    /\ variant \in {"fix", "orig"} /\ tokenizer = "whitespace"
    /\ Len(sent_rows) >= 2
    /\ sent_rows[1].subchunk_id # <<>> /\ sent_rows[2].subchunk_id # <<>>
    /\ sent_rows[1].subchunk_id # sent_rows[2].subchunk_id

----------------------------------------------------------------------------
(* make_sentences_compact4_v2.py: the sort keys and the stable sort *)

IsDigit(c) == \E d \in 1..10 : Digits[d] = c

\* str.isdigit(): not empty and digits only
IsDigits(t) == t # <<>> /\ \A k \in 1..Len(t) : IsDigit(t[k])

\* the group of re.search(r"(\d+)$", s): the digits the text ends with
RECURSIVE TrailingDigits(_)
TrailingDigits(t) ==
    IF t = <<>> \/ ~IsDigit(t[Len(t)]) THEN <<>>
    ELSE Append(TrailingDigits(SubSeq(t, 1, Len(t) - 1)), t[Len(t)])

\* chunk_no
ChunkNo(cid) == IF TrailingDigits(cid) # <<>> THEN ParseInt(TrailingDigits(cid)) ELSE 0

\* sub_no_from_sid: the last block but one of the sentence id
SubNoFromSid(sid) ==
    LET parts == Fields(sid)
    IN  IF Len(parts) >= 3 /\ IsDigits(parts[Len(parts) - 1])
        THEN ParseInt(parts[Len(parts) - 1]) ELSE 0

\* sent_no_from_sid: the last block of the sentence id
SentNoFromSid(sid) ==
    LET parts == Fields(sid)
    IN  IF IsDigits(parts[Len(parts)]) THEN ParseInt(parts[Len(parts)]) ELSE 0

\* the columns _c, _sc, _s of a row
SortKey(row) ==
    <<ChunkNo(row.chunk_id), SubNoFromSid(row.sentence_id), SentNoFromSid(row.sentence_id)>>

\* key a comes before key b (by _c, then _sc, then _s)
KeyBefore(a, b) ==
    \/ a[1] < b[1]
    \/ a[1] = b[1] /\ a[2] < b[2]
    \/ a[1] = b[1] /\ a[2] = b[2] /\ a[3] < b[3]

\* the row is put behind the rows that do not come after it
RECURSIVE InsertStable(_, _)
InsertStable(sorted, row) ==
    IF sorted = <<>> THEN <<row>>
    ELSE IF KeyBefore(SortKey(row), SortKey(sorted[Len(sorted)]))
         THEN Append(InsertStable(SubSeq(sorted, 1, Len(sorted) - 1), row),
                     sorted[Len(sorted)])
         ELSE Append(sorted, row)

\* df.sort_values(by=["_c", "_sc", "_s"], kind="stable")
RECURSIVE SortValues(_)
SortValues(rows) ==
    IF rows = <<>> THEN <<>>
    ELSE InsertStable(SortValues(SubSeq(rows, 1, Len(rows) - 1)), rows[Len(rows)])

----------------------------------------------------------------------------
(* Claims about the order of the rows *)

\* C28: within a chunk the sub-chunk ordinal of the sentence ids does not
\* decrease from one sentence row to the next, so the rows are emitted in
\* chunk, sub-chunk, sentence order and the stable sort of
\* make_sentences_compact4_v2 leaves the rows of v2 as they were emitted.
C28_EmittedInOrder ==
    variant # "none" =>
        /\ \A k \in 1..(Len(sent_rows) - 1) :
              sent_rows[k].chunk_id = sent_rows[k + 1].chunk_id =>
                  SubNoFromSid(sent_rows[k].sentence_id)
                      <= SubNoFromSid(sent_rows[k + 1].sentence_id)
        /\ \A k \in 1..(Len(sent_rows) - 1) :
              ~KeyBefore(SortKey(sent_rows[k + 1]), SortKey(sent_rows[k]))
        /\ variant = "v2" => SortValues(sent_rows) = sent_rows

----------------------------------------------------------------------------
(* Claims about what the splitters keep of the text *)

\* the text without its whitespace characters
WithoutWhitespace(t) == SelectSeq(t, LAMBDA c : ~IsSpace(c))

\* t is the sentences in their order with nothing but whitespace before,
\* between and after them
RECURSIVE SentencesAndWhitespace(_, _)
SentencesAndWhitespace(t, sents) ==
    LET u == LStrip(t)
    IN  IF sents = <<>> THEN u = <<>>
        ELSE /\ sents[1] # <<>>
             /\ Len(sents[1]) <= Len(u)
             /\ SubSeq(u, 1, Len(sents[1])) = sents[1]
             /\ SentencesAndWhitespace(SubSeq(u, Len(sents[1]) + 1, Len(u)), Tail(sents))

\* C29 as stated: the sentences, concatenated in their order, are the text
\* from which nothing but the whitespace between the sentences and at both
\* ends was removed.
C29_TextReproduced ==
    pc = "split" => SentencesAndWhitespace(text, sentences)

\* C29, amended: every character of the text that is not whitespace belongs
\* to exactly one sentence and the characters keep their order; the
\* sentences, concatenated in their order, are the text the splitter scans
\* (for the simple splitter and the strict splitter of fix: the text with
\* every line break replaced by a space) from which nothing but the
\* whitespace between the sentences and at both ends was removed.
C29_NothingLostOrDuplicated ==
    pc = "split" =>
        /\ WithoutWhitespace(Join(sentences)) = WithoutWhitespace(text)
        /\ SentencesAndWhitespace(ScannedText, sentences)

\* two sentences were cut out of a text and whitespace was removed
C29_Witness ==
    /\ pc = "split"
    /\ Len(sentences) >= 2
    /\ Len(Join(sentences)) < Len(text)

----------------------------------------------------------------------------
(* Specification of pipeline_build_sqlite.py: one row of the chunk CSV is   *)
(* ingested, its text tokenized with str.split, cut into sub-chunks of      *)
(* SUB_CHUNK_LIMIT tokens and every sub-chunk split into sentences.         *)

SUB_CHUNK_LIMIT == 200

\* tokenize: text.split().  The text is cut at the whitespace character
\* nearest to its middle and the tokens of the two parts are put together;
\* a text without whitespace is one token, the empty text none.
RECURSIVE Tokenize(_)
Tokenize(t) ==
    LET ws  == {k \in 1..Len(t) : IsSpace(t[k])}
        mid == (Len(t) + 1) \div 2
        Far(k) == IF k >= mid THEN k - mid ELSE mid - k
    IN  IF ws = {} THEN (IF t = <<>> THEN <<>> ELSE <<t>>)
        ELSE LET k == CHOOSE x \in ws : \A y \in ws : Far(x) <= Far(y)
             IN  Tokenize(SubSeq(t, 1, k - 1)) \o Tokenize(SubSeq(t, k + 1, Len(t)))

\* detokenize: " ".join(tokens), the two halves of the list joined first
RECURSIVE Detokenize(_)
Detokenize(toks) ==
    IF toks = <<>> THEN <<>>
    ELSE IF Len(toks) = 1 THEN toks[1]
         ELSE LET h == Len(toks) \div 2
              IN  Detokenize(SubSeq(toks, 1, h)) \o <<" ">>
                      \o Detokenize(SubSeq(toks, h + 1, Len(toks)))

\* math.ceil(a / b) for a >= 0, b > 0
Ceil(a, b) == (a + b - 1) \div b

\* SENTENCE_PATTERN.findall(t) for r'([A-Z][\s\S]*?\. )': from the first
\* capital letter to the first ". " behind it, then on from there
RECURSIVE FindAllSentences(_, _, _)
FindAllSentences(t, pos, parts) ==
    LET capitals == {c \in pos..(Len(t) - 1) : IsUpper(At(t, c))}
    IN  IF capitals = {} THEN parts
        ELSE LET c == CHOOSE x \in capitals : \A y \in capitals : x <= y
                 ends == {q \in (c + 1)..(Len(t) - 2) :
                              At(t, q) = "." /\ At(t, q + 1) = " "}
             IN  IF ends = {} THEN parts
                 ELSE LET q == CHOOSE x \in ends : \A y \in ends : x <= y
                      IN  FindAllSentences(t, q + 2, Append(parts, Slice(t, c, q + 2)))

\* split_sentences of pipeline_build_sqlite.py
SplitSentencesSqlite(pali_text) ==
    LET t == IF pali_text # <<>> /\ pali_text[Len(pali_text)] = " "
             THEN pali_text ELSE Append(pali_text, " ")
        parts == FindAllSentences(t, 0, <<>>)
    IN  IF parts # <<>> THEN [k \in 1..Len(parts) |-> Strip(parts[k])]
        ELSE <<Strip(pali_text)>>

\* f"{chunk_id}.{k:03d}"
DottedId(prefix, k) == prefix \o <<".">> \o ZeroPad(k, SUBCHUNK_PAD)

\* the rows inserted into SubChunk and Sentence for the si-th sub-chunk
\* (si from 0) of a chunk
SqliteSubchunk(chunk_id, tokens, si) ==
    LET start      == si * SUB_CHUNK_LIMIT
        end        == Min((si + 1) * SUB_CHUNK_LIMIT, Len(tokens))
        sub_tokens == Slice(tokens, start, end)
        sub_text   == Detokenize(sub_tokens)
        sub_id     == DottedId(chunk_id, si + 1)
        sents      == SplitSentencesSqlite(sub_text)
    IN  [sub |-> [sub_chunk_id |-> sub_id, chunk_id |-> chunk_id,
                  pali_text |-> sub_text, token_count |-> Len(sub_tokens),
                  order_idx |-> si + 1],
         sents |-> [pi \in 1..Len(sents) |->
                       [sentence_id |-> DottedId(sub_id, pi), sub_chunk_id |-> sub_id,
                        pali_text |-> sents[pi], order_idx |-> pi]]]

\* sub_count = math.ceil(max(1, len(tokens)) / SUB_CHUNK_LIMIT)
SubCount(tokens) == Ceil(Max(1, Len(tokens)), SUB_CHUNK_LIMIT)

\* a chunk of m words "a", the k-th of them "A." when k is a multiple of 150
LongChunk(m) == [k \in 1..m |-> IF k % 150 = 0 THEN <<"A", ".">> ELSE <<"a">>]

SqliteChunks == TokenLists(MaxTokens) \cup {LongChunk(200), LongChunk(201), LongChunk(400)}

InitSqlite ==
    /\ pc = "csv_row"
    /\ tokens_all \in SqliteChunks
    /\ variant = "none" /\ chunk_size = 1 /\ sub_size = 1
    /\ chunk_ranges = <<>> /\ ci = 0 /\ next_chunk_idx = 1
    /\ chunk_rows = <<>> /\ sub_rows = <<>> /\ sent_rows = <<>>
    /\ subchunks_char_ranges = <<>> /\ chunk_words = <<>>
    /\ IdleSlicer /\ IdleSplitter /\ IdleResolver /\ IdleLocate /\ IdleIds /\ IdleExt

\* one iteration of for ci, row in enumerate(reader, start=1): the chunk is
\* inserted, then its sub-chunks and their sentences
IngestChunk ==
    /\ pc = "csv_row"
    /\ LET chunk_id == Decimal(ci + 1)
           pali_text == Strip(Detokenize(tokens_all))
           tokens == Tokenize(pali_text)
           subs == [si \in 1..SubCount(tokens) |-> SqliteSubchunk(chunk_id, tokens, si - 1)]
       IN  /\ chunk_rows' = <<[chunk_id |-> chunk_id, pali_text |-> pali_text,
                                token_count |-> Len(tokens), order_idx |-> ci + 1]>>
           /\ sub_rows' = [k \in 1..Len(subs) |-> subs[k].sub]
           /\ sent_rows' = Join([k \in 1..Len(subs) |-> subs[k].sents])
    /\ ci' = ci + 1
    /\ pc' = "stored"
    /\ UNCHANGED <<variant, chunk_size, sub_size, tokens_all, chunk_ranges,
                   next_chunk_idx, subchunks_char_ranges, chunk_words, unusedByFile>>

NextSqlite == IngestChunk

SpecSqlite == InitSqlite /\ [][NextSqlite]_vars

\* C30: a chunk of n whitespace tokens is stored with exactly ceil(n / 200)
\* sub-chunks, each of at least one token, and every stored sentence has a
\* text that is not empty; a chunk of zero tokens is stored without
\* sub-chunk and without sentence.
C30_SubchunksAndSentences ==
    pc = "stored" =>
        /\ Len(sub_rows) = Ceil(Len(tokens_all), SUB_CHUNK_LIMIT)
        /\ \A k \in 1..Len(sub_rows) : sub_rows[k].token_count >= 1
        /\ \A k \in 1..Len(sent_rows) : sent_rows[k].pali_text # <<>>
        /\ tokens_all = <<>> => (sub_rows = <<>> /\ sent_rows = <<>>)
====
